---- MODULE Spec2Model ----
(***************************************************************************)
(* Droid Provider Bridge: the gateway's request handling (src/index.ts),   *)
(* its rotating account pools and the credential refresh it calls; then    *)
(* the provider adapters' pure functions (stream parsing, request          *)
(* building, schema sanitization, message conversion), each applied to     *)
(* bounded inputs under a specification of its own.                        *)
(*                                                                         *)
(* One action per event-loop turn: a handler runs from one suspension      *)
(* point (await) to the next without interleaving, as Node's single        *)
(* thread runs it.  The upstream's answers are the environment's choice.   *)
(***************************************************************************)
EXTENDS Integers, Sequences, FiniteSets, TLC

\* ------------------------------------------------------------------ bounds
NumRequests == 2
MaxAccounts == 2
MaxRotations == 2
MaxRefreshes == 1
MaxReads == 1

\* --------------------------------------------------------------- constants
Providers == {"antigravity", "codex"}
Requests == 1..NumRequests

\* src/index.ts:164, the status that triggers rotation
RateLimited == 429

\* The model registry MODELS (types, src/unnamed/part_002:321-467): public
\* id -> provider, upstream model name, thinking settings (budget 0 and level
\* "" where the entry declares none) and output limit
MODELS ==
    "claude-sonnet-4.5" :>
      [provider |-> "antigravity", actualModel |-> "claude-sonnet-4-5", isThinking |-> FALSE,
       thinkingBudget |-> 0, thinkingLevel |-> "", outputLimit |-> 64000]
 @@ "claude-sonnet-4.5-thinking-low" :>
      [provider |-> "antigravity", actualModel |-> "claude-sonnet-4-5-thinking", isThinking |-> TRUE,
       thinkingBudget |-> 8000, thinkingLevel |-> "", outputLimit |-> 64000]
 @@ "claude-sonnet-4.5-thinking-medium" :>
      [provider |-> "antigravity", actualModel |-> "claude-sonnet-4-5-thinking", isThinking |-> TRUE,
       thinkingBudget |-> 16000, thinkingLevel |-> "", outputLimit |-> 64000]
 @@ "claude-sonnet-4.5-thinking-high" :>
      [provider |-> "antigravity", actualModel |-> "claude-sonnet-4-5-thinking", isThinking |-> TRUE,
       thinkingBudget |-> 32000, thinkingLevel |-> "", outputLimit |-> 64000]
 @@ "claude-opus-4.5-thinking-low" :>
      [provider |-> "antigravity", actualModel |-> "claude-opus-4-5-thinking", isThinking |-> TRUE,
       thinkingBudget |-> 8000, thinkingLevel |-> "", outputLimit |-> 64000]
 @@ "claude-opus-4.5-thinking-medium" :>
      [provider |-> "antigravity", actualModel |-> "claude-opus-4-5-thinking", isThinking |-> TRUE,
       thinkingBudget |-> 16000, thinkingLevel |-> "", outputLimit |-> 64000]
 @@ "claude-opus-4.5-thinking-high" :>
      [provider |-> "antigravity", actualModel |-> "claude-opus-4-5-thinking", isThinking |-> TRUE,
       thinkingBudget |-> 32000, thinkingLevel |-> "", outputLimit |-> 64000]
 @@ "gemini-3-flash" :>
      [provider |-> "antigravity", actualModel |-> "gemini-3-flash", isThinking |-> FALSE,
       thinkingBudget |-> 0, thinkingLevel |-> "", outputLimit |-> 65536]
 @@ "gemini-3-pro-low" :>
      [provider |-> "antigravity", actualModel |-> "gemini-3-pro-low", isThinking |-> TRUE,
       thinkingBudget |-> 0, thinkingLevel |-> "low", outputLimit |-> 65535]
 @@ "gemini-3-pro-high" :>
      [provider |-> "antigravity", actualModel |-> "gemini-3-pro-high", isThinking |-> TRUE,
       thinkingBudget |-> 0, thinkingLevel |-> "high", outputLimit |-> 65535]
 @@ "gpt-5.2" :>
      [provider |-> "codex", actualModel |-> "gpt-5.2", isThinking |-> FALSE,
       thinkingBudget |-> 0, thinkingLevel |-> "", outputLimit |-> 32000]
 @@ "gpt-5.2-thinking" :>
      [provider |-> "codex", actualModel |-> "gpt-5.2-thinking", isThinking |-> TRUE,
       thinkingBudget |-> 0, thinkingLevel |-> "", outputLimit |-> 64000]
 @@ "gpt-5.2-codex" :>
      [provider |-> "codex", actualModel |-> "gpt-5.2-codex", isThinking |-> FALSE,
       thinkingBudget |-> 0, thinkingLevel |-> "", outputLimit |-> 64000]

NotFound == [provider |-> "", actualModel |-> ""]

\* A lookup that falls back to a default entry.
lookupModelOrDefault(model) ==
    IF model \in DOMAIN MODELS THEN MODELS[model] ELSE MODELS["claude-sonnet-4.5"]

\* MODELS[req.model]: undefined for a key the registry does not hold
lookupModel(model) == IF model \in DOMAIN MODELS THEN MODELS[model] ELSE NotFound

\* The client bodies the model sends: one that JSON.parse rejects, the JSON
\* value null (parses, but req.model throws), and objects naming a model of
\* either provider or no registry key, streaming or not.
ReqModels == {"claude-sonnet-4.5", "gpt-5.2", "no-such-model"}
ClientBodies ==
    {[json |-> "malformed", model |-> "", stream |-> FALSE],
     [json |-> "null", model |-> "", stream |-> FALSE]}
    \cup {[json |-> "object", model |-> m, stream |-> s] : m \in ReqModels, s \in BOOLEAN}
NoRequest == [json |-> "", model |-> "", stream |-> FALSE]

\* Accounts are named by provider and position in storage order.
AccountIds == {<<p, i>> : p \in Providers, i \in 1..MaxAccounts}
NoAccount == <<"", 0>>

\* An upstream reply: its status and what reading its body gives.
\*   wellformed  text that parses        malformed  text that does not parse
\*   none        no body (body is null)  broken     the read rejects
UpstreamStatuses == {200, 400, RateLimited}
Bodies == {"wellformed", "malformed", "none", "broken"}
NoResponse == [status |-> 0, body |-> "", reads |-> 0]

NoError == [message |-> "", type |-> "", code |-> 0]
NewServerResponse ==
    [headersSent |-> FALSE, status |-> 0, contentType |-> "", error |-> NoError,
     written |-> <<>>, ended |-> FALSE, writeHeads |-> 0, threw |-> FALSE]

\* /health has not been asked.
NoHealth == [status |-> 0, antigravity_accounts |-> 0, codex_accounts |-> 0]

\* index.ts:409-411: initializeAccounts has returned and the server listens.
Listening == [pc |-> "listening", list |-> <<>>, i |-> 0, failed |-> {}, health |-> NoHealth]

\* The storage file holds no account of this id.
Absent == [absent |-> TRUE]

\* The functions' variables while no function is applied.
NoStream == [provider |-> "", state |-> "none", events |-> <<>>, lastContent |-> <<>>,
             out |-> <<>>, disconnectedAt |-> -1]
NoCall == [state |-> "none", model |-> "", messages |-> <<>>, maxTokens |-> <<>>]
NoSchema == [state |-> "none", given |-> <<>>, before |-> <<>>, value |-> <<>>]
NoTrip == [state |-> "none", provider |-> "", messages |-> <<>>, converted |-> <<>>,
           back |-> <<>>]
NoAnswer == [state |-> "none", candidates |-> <<>>, choice |-> <<>>]
NoLive == [pc |-> "none", model |-> "", stream |-> FALSE, pool |-> <<>>, cursor |-> 0,
           account |-> NoAccount, response |-> NoResponse, status |-> 0]

VARIABLES
    antigravityAccounts,      \* index.ts:44  pool, a sequence of account ids
    codexAccounts,            \* index.ts:45
    currentAntigravityIndex,  \* index.ts:46  rotation cursor
    currentCodexIndex,        \* index.ts:47
    accounts,                 \* the ProviderAccount objects, by id
    nearExpiry,               \* ids with expiresAt < Date.now() + 60000
    stored,                   \* what the storage file holds, by id
    pc,                       \* each request's suspension point
    req,                      \* each request's parsed body
    account,                  \* handleChatCompletion's local `account`
    response,                 \* handleChatCompletion's local `response`
    res,                      \* each request's http.ServerResponse
    upstream,                 \* log of the upstream calls each request issued
    rotated,                  \* log of the accounts rotateAccount returned
    started,                  \* what held when each request was received
    boot,                     \* initializeAccounts' progress, and the last /health report
    stream,                   \* one run of a stream function over an upstream body
    invocation,               \* one call of callAntigravity
    schema,                   \* one tool schema and what cleanSchema makes of it
    trip,                     \* one message, converted and parsed back
    answer,                   \* one upstream response and what the parser returns
    live                      \* one request against upstreams that always answer

vars == <<antigravityAccounts, codexAccounts, currentAntigravityIndex,
          currentCodexIndex, accounts, nearExpiry, stored, pc, req, account,
          response, res, upstream, rotated, started, boot, stream, invocation, schema,
          trip, answer, live>>

\* The gateway's state, and the variables of the adapters' functions.
gateway == <<antigravityAccounts, codexAccounts, currentAntigravityIndex,
             currentCodexIndex, accounts, nearExpiry, stored, pc, req, account,
             response, res, upstream, rotated, started, boot>>
functions == <<stream, invocation, schema, trip, answer, live>>

pools == <<antigravityAccounts, codexAccounts>>
cursors == <<currentAntigravityIndex, currentCodexIndex>>


\* ------------------------------------------------------- account pool
\* A cursor read one place ahead.
getNextAccountAhead(provider) ==
    IF provider = "antigravity"
    THEN IF Len(antigravityAccounts) = 0 THEN NoAccount
         ELSE antigravityAccounts[((currentAntigravityIndex + 1) % Len(antigravityAccounts)) + 1]
    ELSE IF Len(codexAccounts) = 0 THEN NoAccount
         ELSE codexAccounts[((currentCodexIndex + 1) % Len(codexAccounts)) + 1]

\* index.ts:86-96
getNextAccount(provider) ==
    IF provider = "antigravity"
    THEN IF Len(antigravityAccounts) = 0 THEN NoAccount
         ELSE antigravityAccounts[(currentAntigravityIndex % Len(antigravityAccounts)) + 1]
    ELSE IF Len(codexAccounts) = 0 THEN NoAccount
         ELSE codexAccounts[(currentCodexIndex % Len(codexAccounts)) + 1]

\* index.ts:98-108: the cursor moves; the value returned is getNextAccount
\* read after the move, written getNextAccount(provider)' by the callers.
advance(provider, by) ==
    /\ IF provider = "antigravity"
       THEN /\ currentAntigravityIndex' = currentAntigravityIndex + by
            /\ UNCHANGED currentCodexIndex
       ELSE /\ currentCodexIndex' = currentCodexIndex + by
            /\ UNCHANGED currentAntigravityIndex
    /\ rotated' = [rotated EXCEPT ![provider] = Append(@, getNextAccount(provider)')]

rotateAccountBy2(provider) == advance(provider, 2)

rotateAccountBy3(provider) == advance(provider, 3)

rotateAccount(provider) == advance(provider, 1)

\* A write that does not reach the file.
upsertNothing(store, id, record) == store

\* upsertAccount (storage, src/README.md:327-338): the stored record of the
\* id is replaced by the given one, which is added when the file holds no
\* account of this id.
upsertAccount(store, id, record) == [store EXCEPT ![id] = record]

\* removeAccount (storage, src/README.md:351-361)
removeAccount(store, id) == [store EXCEPT ![id] = Absent]

\* ------------------------------------------------------ ServerResponse
\* node:http ServerResponse.writeHead: throws ERR_HTTP_HEADERS_SENT once the
\* header has been stored, and writes nothing then.
writeHead(r, status, contentType) ==
    IF r.headersSent
    THEN [r EXCEPT !.writeHeads = @ + 1, !.threw = TRUE]
    ELSE [r EXCEPT !.headersSent = TRUE, !.status = status,
                   !.contentType = contentType, !.writeHeads = @ + 1]

\* index.ts:320-326
sendJSON(r, status, object, error) ==
    LET h == writeHead(r, status, "application/json")
    IN  IF h.threw THEN h
        ELSE [h EXCEPT !.written = Append(@, object), !.error = error, !.ended = TRUE]

\* An error helper that ignores the status it is given.
sendErrorAlways500(r, status, message) ==
    sendJSON(r, 500, "error",
             [message |-> message, type |-> "api_error", code |-> 500])

\* index.ts:328-332
sendError(r, status, message) ==
    sendJSON(r, status, "error",
             [message |-> message, type |-> "api_error", code |-> status])

\* A catch that reports the failure as the client's.
catchInternalAs400(r) == sendError([r EXCEPT !.threw = FALSE], 400, "Internal error")

\* index.ts:213-216: the catch of handleChatCompletion.  If its own sendError
\* throws, handleChatCompletion rejects.
catchInternal(r) == sendError([r EXCEPT !.threw = FALSE], 500, "Internal error")

\* index.ts:383-385: the catch around JSON.parse and handleChatCompletion.
\* threw = TRUE in the result is an unhandled rejection.
catchInvalid(r) == sendError([r EXCEPT !.threw = FALSE], 400, "Invalid request")

\* An exception inside handleChatCompletion's try block: caught at 213, and
\* at 383 when that catch throws in turn.
thrownInTry(r) ==
    LET c == catchInternal(r) IN IF c.threw THEN catchInvalid(c) ELSE c

\* ------------------------------------------------------------ helpers
InFlight(r) == pc[r] \notin {"idle", "done"}

providerOf(r) == lookupModel(req[r].model).provider

\* One entry per upstream call a request issues, appended when the call is
\* dispatched and completed when it returns.
dispatched(log, call, acc) ==
    Append(log, [call |-> call, account |-> acc, state |-> "pending", status |-> 0,
                 body |-> ""])

returned(log, state, status, body) ==
    [log EXCEPT ![Len(log)] = [@ EXCEPT !.state = state, !.status = status, !.body = body]]

\* index.ts:136-140: only the antigravity branch refreshes before the call
needsRefresh(prov, acc) == prov = "antigravity" /\ acc \in nearExpiry

\* refreshAntigravityToken (src/unnamed/part_001:106-130): the mutation on a
\* 2xx reply of the token endpoint
refreshAntigravityToken(record) ==
    [record EXCEPT !.accessToken = @ + 1, !.expiresAt = @ + 1]

\* A rotation on every error status.
rotatesOnAnyError(status) == status >= 400

\* index.ts:164: rotate on rate limit
rotatesOn(status) == status = RateLimited

\* A retry with whatever account the rotation returns.
shouldRetryAlways(newAccount, oldAccount) == newAccount # NoAccount

\* index.ts:167: retry only with another account
shouldRetry(newAccount, oldAccount) ==
    newAccount # NoAccount /\ newAccount # oldAccount

\* Response.text(): the body's text, empty when there is no body
text(body) == IF body = "none" THEN "" ELSE body

\* index.ts:194-202: JSON.parse for antigravity throws on text that is not
\* JSON; parseCodexResponse skips what it cannot parse and never throws.
parses(prov, body) == prov = "codex" \/ body = "wellformed"

\* The replies the upstream can give to a completion call; NoResponse stands
\* for a fetch that rejects.
UpstreamReplies ==
    {[status |-> s, body |-> b, reads |-> 0] : s \in UpstreamStatuses, b \in Bodies}

\* Whether an error body is JSON or has no bytes changes nothing the gateway
\* does with it (it is passed on as text): error replies carry a text body
\* or one whose read rejects.
CompletionReplies ==
    {reply \in UpstreamReplies : reply.status # 200 => reply.body \in {"malformed", "broken"}}

\* Refreshes done so far plus the tokens now near expiry, over the accounts
\* of both providers.
RECURSIVE Aged(_)
Aged(i) ==
    IF i = 0 THEN 0
    ELSE Aged(i - 1) + accounts[<<"antigravity", i>>].accessToken
         + (IF <<"antigravity", i>> \in nearExpiry THEN 1 ELSE 0)
         + (IF <<"codex", i>> \in nearExpiry THEN 1 ELSE 0)

PendingRateLimits ==
    Cardinality({q \in Requests : pc[q] = "errorText" /\ response[q].status = RateLimited})

\* A completion that leaves lastUsed as it was.
touchNothing(r) == UNCHANGED <<accounts, stored>>

\* index.ts:207-209
touch(r) ==
    /\ accounts' = [accounts EXCEPT ![account[r]].lastUsed = r]
    /\ stored' = upsertAccount(stored, account[r], accounts'[account[r]])

\* The handler returns: the response is as `result` and the locals are gone.
finish(r, result) ==
    /\ res' = [res EXCEPT ![r] = result]
    /\ pc' = [pc EXCEPT ![r] = "done"]
    /\ response' = [response EXCEPT ![r] = NoResponse]

\* ------------------------------------------------------------ actions
\* index.ts:114-157, from the entry of handleChatCompletion to its first
\* await.  The cursors' new values are set by the caller (unchanged on a
\* first entry, advanced on a retry).
handleChatCompletion(r, rq) ==
    LET modelConfig == lookupModel(rq.model) IN
    IF modelConfig = NotFound
    THEN /\ finish(r, sendError(res[r], 400, "Unknown model"))
         /\ UNCHANGED <<account, upstream>>
    ELSE LET acc == getNextAccount(modelConfig.provider)' IN
         IF acc = NoAccount
         THEN /\ finish(r, sendError(res[r], 503, "No accounts available"))
              /\ UNCHANGED <<account, upstream>>
         ELSE /\ account' = [account EXCEPT ![r] = acc]
              /\ response' = [response EXCEPT ![r] = NoResponse]
              /\ UNCHANGED res
              /\ IF needsRefresh(modelConfig.provider, acc)
                 THEN /\ pc' = [pc EXCEPT ![r] = "refresh"]
                      /\ upstream' = [upstream EXCEPT ![r] = dispatched(@, "refresh", acc)]
                 ELSE /\ pc' = [pc EXCEPT ![r] = "call"]
                      /\ upstream' = [upstream EXCEPT ![r] = dispatched(@, "completion", acc)]

\* index.ts:376-388: the body has arrived; parse it and enter the handler.
HandleRequest(r) ==
    /\ pc[r] = "idle"
    /\ \A q \in Requests : q < r => pc[q] # "idle"
    /\ \E body \in ClientBodies :
        /\ req' = [req EXCEPT ![r] = body]
        /\ started' = [q \in Requests |->
              IF q = r
              THEN [alone |-> \A o \in Requests \ {r} : ~InFlight(o),
                    antigravityIndex |-> currentAntigravityIndex,
                    codexIndex |-> currentCodexIndex]
              ELSE IF InFlight(q) THEN [started[q] EXCEPT !.alone = FALSE]
              ELSE started[q]]
        /\ UNCHANGED <<pools, cursors, rotated, accounts, nearExpiry, stored, functions, boot>>
        /\ IF body.json # "object"
           THEN /\ finish(r, catchInvalid(res[r]))
                /\ UNCHANGED <<account, upstream>>
           ELSE handleChatCompletion(r, body)

\* A refresh whose failure is swallowed: the completion call goes out anyway.
RefreshReturnsIgnoringFailure(r) ==
    /\ pc[r] = "refresh"
    /\ UNCHANGED <<pools, cursors, rotated, req, account, started, functions, boot,
                   accounts, nearExpiry, stored, res, response>>
    /\ \E ok \in BOOLEAN :
        upstream' = [upstream EXCEPT ![r] =
            dispatched(returned(@, IF ok THEN "replied" ELSE "failed", 0, ""),
                       "completion", account[r])]
    /\ pc' = [pc EXCEPT ![r] = "call"]

\* index.ts:139: refreshAntigravityToken returns or throws.
RefreshReturns(r) ==
    /\ pc[r] = "refresh"
    /\ UNCHANGED <<pools, cursors, rotated, req, account, started, functions, boot>>
    /\ \E ok \in BOOLEAN :
        IF ok
        THEN /\ accounts' = [accounts EXCEPT ![account[r]] = refreshAntigravityToken(@)]
             /\ nearExpiry' = nearExpiry \ {account[r]}
             /\ stored' = upsertAccount(stored, account[r], accounts'[account[r]])
             /\ upstream' = [upstream EXCEPT ![r] =
                    dispatched(returned(@, "replied", 200, ""), "completion", account[r])]
             /\ pc' = [pc EXCEPT ![r] = "call"]
             /\ UNCHANGED <<res, response>>
        ELSE /\ upstream' = [upstream EXCEPT ![r] = returned(@, "failed", 0, "")]
             /\ finish(r, thrownInTry(res[r]))
             /\ UNCHANGED <<accounts, nearExpiry, stored>>

\* index.ts:178-191 and 219-229, 303-314 (codex.ts:259-260): the headers of
\* the event stream are written, then the stream function asks for the
\* body's reader.
startStream(r, reply) ==
    LET h == writeHead(res[r], 200, "text/event-stream") IN
    IF reply.body = "none"
    THEN IF providerOf(r) = "antigravity"
         THEN LET e == sendError(h, 500, "No response body") IN
              IF e.threw
              THEN /\ finish(r, thrownInTry(e))
                   /\ UNCHANGED <<accounts, stored>>
              ELSE /\ finish(r, e)
                   /\ touch(r)
         ELSE /\ finish(r, thrownInTry(h))
              /\ UNCHANGED <<accounts, stored>>
    ELSE /\ res' = [res EXCEPT ![r] = h]
         /\ pc' = [pc EXCEPT ![r] = "streaming"]
         /\ response' = [response EXCEPT ![r] = reply]
         /\ UNCHANGED <<accounts, stored>>

\* index.ts:142-157 and 160, 179, 192: the upstream call returns a reply or
\* rejects.
UpstreamReturns(r) ==
    /\ pc[r] = "call"
    /\ UNCHANGED <<pools, cursors, rotated, nearExpiry, req, account, started, functions, boot>>
    /\ \E reply \in CompletionReplies \cup {NoResponse} :
        /\ reply.status = RateLimited =>
              currentAntigravityIndex + currentCodexIndex + PendingRateLimits < MaxRotations
        /\ IF reply = NoResponse
           THEN /\ upstream' = [upstream EXCEPT ![r] = returned(@, "failed", 0, "")]
                /\ finish(r, thrownInTry(res[r]))
                /\ UNCHANGED <<accounts, stored>>
           ELSE /\ upstream' = [upstream EXCEPT ![r] = returned(@, "replied", reply.status, reply.body)]
                /\ IF reply.status # 200
                   THEN /\ pc' = [pc EXCEPT ![r] = "errorText"]
                        /\ response' = [response EXCEPT ![r] = reply]
                        /\ UNCHANGED <<res, accounts, stored>>
                   ELSE IF req[r].stream
                   THEN startStream(r, reply)
                   ELSE /\ pc' = [pc EXCEPT ![r] = "text"]
                        /\ response' = [response EXCEPT ![r] = reply]
                        /\ UNCHANGED <<res, accounts, stored>>

\* index.ts:161-176: the error body has been read (or the read rejected).
ErrorTextReturns(r) ==
    /\ pc[r] = "errorText"
    /\ UNCHANGED <<pools, accounts, nearExpiry, stored, req, started, functions, boot>>
    /\ IF response[r].body = "broken"
       THEN /\ finish(r, thrownInTry(res[r]))
            /\ UNCHANGED <<cursors, rotated, account, upstream>>
       ELSE IF rotatesOn(response[r].status)
       THEN /\ rotateAccount(providerOf(r))
            /\ IF shouldRetry(getNextAccount(providerOf(r))', account[r])
               THEN handleChatCompletion(r, req[r])
               ELSE /\ finish(r, sendError(res[r], response[r].status, text(response[r].body)))
                    /\ UNCHANGED <<account, upstream>>
       ELSE /\ finish(r, sendError(res[r], response[r].status, text(response[r].body)))
            /\ UNCHANGED <<cursors, rotated, account, upstream>>

\* index.ts:194-209: the body of a non-streaming reply has been read.
TextReturns(r) ==
    /\ pc[r] = "text"
    /\ UNCHANGED <<pools, cursors, rotated, nearExpiry, req, account, upstream, started,
                   functions, boot>>
    /\ IF response[r].body # "broken" /\ parses(providerOf(r), text(response[r].body))
       THEN /\ finish(r, sendJSON(res[r], 200, "chat.completion", NoError))
            /\ touch(r)
       ELSE /\ finish(r, thrownInTry(res[r]))
            /\ UNCHANGED <<accounts, stored>>

\* A stream whose failed read rotates the account and starts the request over.
StreamReadRetrying(r) ==
    /\ pc[r] = "streaming"
    /\ currentAntigravityIndex + currentCodexIndex < MaxRotations
    /\ UNCHANGED <<pools, accounts, nearExpiry, stored, req, started, functions, boot>>
    /\ rotateAccount(providerOf(r))
    /\ handleChatCompletion(r, req[r])

\* index.ts:234-300 and 309-313: one reader.read() of the stream returns a
\* chunk, the end of the body, or rejects.
StreamRead(r) ==
    /\ pc[r] = "streaming"
    /\ UNCHANGED <<pools, cursors, rotated, nearExpiry, req, account, upstream, started,
                   functions, boot>>
    /\ \/ /\ response[r].reads < MaxReads
          /\ response' = [response EXCEPT ![r].reads = @ + 1]
          /\ res' = [res EXCEPT ![r].written =
                 IF response[r].body = "malformed" THEN @ ELSE Append(@, "chunk")]
          /\ UNCHANGED <<pc, accounts, stored>>
       \/ /\ response[r].body # "broken"
          /\ finish(r, [res[r] EXCEPT !.written = Append(@, "[DONE]"), !.ended = TRUE])
          /\ touch(r)
       \/ /\ response[r].body = "broken"
          /\ finish(r, thrownInTry(res[r]))
          /\ UNCHANGED <<accounts, stored>>

\* Time passes: a pooled account's expiresAt comes within 60 s of now (for a
\* codex account, the seven days set at codex.ts:102 are over).
TokenAges(a) ==
    /\ a \notin nearExpiry
    /\ \/ \E i \in 1..Len(antigravityAccounts) : antigravityAccounts[i] = a
       \/ \E i \in 1..Len(codexAccounts) : codexAccounts[i] = a
    /\ Aged(MaxAccounts) < MaxRefreshes
    /\ nearExpiry' = nearExpiry \cup {a}
    /\ UNCHANGED <<pools, cursors, rotated, accounts, stored, pc, req, account,
                   response, res, upstream, started, functions, boot>>

\* ------------------------------------------------------ specification
\* The state once initializeAccounts has run (index.ts:53-84): each pool
\* holds the first accounts of its provider in storage order, the cursors
\* are 0 and no request has arrived.  Every pooled codex account has passed
\* refreshCodexToken (index.ts:75) and so has a session token: the guard of
\* callCodex (codex.ts:211) does not throw.
initializeAccounts(na, nc) ==
    /\ antigravityAccounts = [i \in 1..na |-> <<"antigravity", i>>]
    /\ codexAccounts = [i \in 1..nc |-> <<"codex", i>>]
    /\ currentAntigravityIndex = 0
    /\ currentCodexIndex = 0
    /\ accounts = [a \in AccountIds |->
          [accessToken |-> 0, expiresAt |-> 0, lastUsed |-> 0, email |-> 0,
           isActive |-> TRUE, sessionToken |-> a[1] = "codex"]]
    /\ nearExpiry = {}
    /\ stored = accounts
    /\ pc = [r \in Requests |-> "idle"]
    /\ req = [r \in Requests |-> NoRequest]
    /\ account = [r \in Requests |-> NoAccount]
    /\ response = [r \in Requests |-> NoResponse]
    /\ res = [r \in Requests |-> NewServerResponse]
    /\ upstream = [r \in Requests |-> <<>>]
    /\ rotated = [p \in Providers |-> <<>>]
    /\ started = [r \in Requests |->
          [alone |-> FALSE, antigravityIndex |-> 0, codexIndex |-> 0]]
    /\ boot = Listening

Init ==
    /\ \E na, nc \in 0..MaxAccounts : initializeAccounts(na, nc)
    /\ stream = NoStream
    /\ invocation = NoCall
    /\ schema = NoSchema
    /\ trip = NoTrip
    /\ answer = NoAnswer
    /\ live = NoLive

Next ==
    \/ \E r \in Requests : HandleRequest(r)
    \/ \E r \in Requests : RefreshReturns(r)
    \/ \E r \in Requests : UpstreamReturns(r)
    \/ \E r \in Requests : ErrorTextReturns(r)
    \/ \E r \in Requests : TextReturns(r)
    \/ \E r \in Requests : StreamRead(r)
    \/ \E a \in AccountIds : TokenAges(a)

Spec == Init /\ [][Next]_vars

\* ------------------------------------------------------------ claims
\* What the claims speak of, read off the state.
Pool(prov) == IF prov = "antigravity" THEN antigravityAccounts ELSE codexAccounts

Cursor(prov) == IF prov = "antigravity" THEN currentAntigravityIndex ELSE currentCodexIndex

IsCompletion(e) == e.call = "completion"

\* The upstream completion calls request r has issued, in order.
CompletionCalls(r) == SelectSeq(upstream[r], IsCompletion)

KnownModel(r) == req[r].json = "object" /\ lookupModel(req[r].model) # NotFound

\* No step of another request fell between r's arrival and now.
RanAlone(r) ==
    /\ started[r].alone
    /\ \A q \in Requests \ {r} : q > r => pc[q] = "idle"

CursorAtStart(r) ==
    IF providerOf(r) = "antigravity" THEN started[r].antigravityIndex
    ELSE started[r].codexIndex

\* C1: a request takes the rotate-and-retry transition at most once, so it
\* issues at most two upstream completion calls; a 429 of the account chosen
\* after rotation is reported, not retried.
C1_RetryAtMostOnce ==
    \A r \in Requests : Len(CompletionCalls(r)) <= 2

\* C2: a request produces exactly one response: the response head is written
\* once, and no error response is issued once the headers have been written.
C2_ExactlyOneResponse ==
    \A r \in Requests :
        /\ res[r].writeHeads <= 1
        /\ pc[r] = "done" => res[r].writeHeads = 1

\* The case of C3: a request that ran alone against a pool of two or more,
\* got 429 from the current account and 2xx from the next one.
C3_Case(r) ==
    /\ pc[r] = "done"
    /\ KnownModel(r)
    /\ RanAlone(r)
    /\ Len(Pool(providerOf(r))) >= 2
    /\ Len(CompletionCalls(r)) >= 2
    /\ CompletionCalls(r)[1].status = RateLimited
    /\ CompletionCalls(r)[2].status = 200

C3_Outcome(r) ==
    LET calls == CompletionCalls(r)
        pool == Pool(providerOf(r))
    IN  /\ Len(calls) = 2
        /\ res[r].status = 200
        /\ calls[1].account = pool[(CursorAtStart(r) % Len(pool)) + 1]
        /\ calls[2].account = pool[((CursorAtStart(r) + 1) % Len(pool)) + 1]
        /\ Cursor(providerOf(r)) = CursorAtStart(r) + 1

\* C3 as stated: 429 on the current account and any 2xx reply of the next
\* account give the client a 200 from that reply, with two upstream calls
\* and the cursor advanced by one.
C3_RetryGives200 ==
    \A r \in Requests : C3_Case(r) => C3_Outcome(r)

\* C3 amended: the same, when the 2xx reply has a body that is read and
\* parses; the 200 response is then complete.
C3_RetryGives200WellFormed ==
    \A r \in Requests :
        (C3_Case(r) /\ CompletionCalls(r)[2].body = "wellformed")
            => (C3_Outcome(r) /\ res[r].ended /\ res[r].writeHeads = 1)

C3_Witness ==
    \E r \in Requests :
        /\ C3_Case(r)
        /\ CompletionCalls(r)[2].body = "wellformed"
        /\ res[r].status = 200

\* The accounts a provider's cursor has pointed at, from the first one.
Visited(prov) == <<Pool(prov)[1]>> \o rotated[prov]

\* C4: from any cursor value, N calls of rotateAccount on a pool of N
\* accounts come back to the account that was current before them, and the
\* N accounts they return are pairwise distinct.
C4_FullCycle ==
    \A prov \in Providers :
        LET n == Len(Pool(prov)) IN
        n >= 1 =>
            \A i \in 1..Len(Visited(prov)) :
                i + n <= Len(Visited(prov)) =>
                    /\ Visited(prov)[i + n] = Visited(prov)[i]
                    /\ \A j, k \in (i + 1)..(i + n) :
                          j # k => Visited(prov)[j] # Visited(prov)[k]

C4_Witness ==
    \E prov \in Providers :
        /\ Len(Pool(prov)) = MaxAccounts
        /\ Len(rotated[prov]) >= Len(Pool(prov))

\* Request r is handled in this step, from the arrival of its body.
Received(r) == pc[r] = "idle" /\ pc'[r] # "idle"

Untouched == UNCHANGED <<pools, cursors, rotated, accounts, nearExpiry, stored>>

\* C5: a request for a known model whose provider has no account is answered
\* 503 with error.code 503 by a normal return, with no refresh call, no
\* upstream call and no cursor moved.
C5_EmptyPool503 ==
    [][\A r \in Requests :
          (Received(r) /\ KnownModel(r)' /\ Len(Pool(providerOf(r)')) = 0)
              => /\ pc'[r] = "done"
                 /\ res'[r].status = 503
                 /\ res'[r].error.code = 503
                 /\ res'[r].writeHeads = 1
                 /\ ~res'[r].threw
                 /\ upstream'[r] = <<>>
                 /\ Untouched]_vars

C5_Witness ==
    \E r \in Requests :
        /\ pc[r] = "done"
        /\ KnownModel(r)
        /\ Len(Pool(providerOf(r))) = 0
        /\ res[r].status = 503

GatewayMessages ==
    {"Unknown model", "No accounts available", "Internal error", "Invalid request",
     "No response body"}

\* C7: a body that does not parse as JSON is answered 400 with no upstream
\* call, and the gateway's own 400 is sent only for an unknown model or a
\* malformed body, never for a failure after the body was accepted.
C7_Only400ForClientErrors ==
    \A r \in Requests :
        /\ (pc[r] = "done" /\ req[r].json = "malformed")
              => (res[r].status = 400 /\ res[r].ended /\ upstream[r] = <<>>)
        /\ (res[r].status = 400 /\ res[r].error.message \in GatewayMessages)
              => ~KnownModel(r)

C7_Witness ==
    \E r, q \in Requests :
        /\ pc[r] = "done" /\ req[r].json = "malformed" /\ res[r].status = 400
        /\ pc[q] = "done" /\ KnownModel(q) /\ res[q].status = 500

\* Request r's read of an upstream error body returns in this step.
ErrorRead(r) ==
    /\ pc[r] = "errorText"
    /\ pc'[r] # "errorText"
    /\ response[r].body # "broken"

\* C8: an upstream status that is not 2xx and not 429, or a 429 that is not
\* retried, reaches the client as that status with body {error: {message:
\* the upstream body, type: "api_error", code: the status}}; a status other
\* than 429 is never retried and the account is not touched.
C8_ErrorPassedThrough ==
    [][\A r \in Requests :
          (ErrorRead(r) /\ (response[r].status # RateLimited \/ pc'[r] = "done"))
              => /\ pc'[r] = "done"
                 /\ res'[r].status = response[r].status
                 /\ res'[r].error = [message |-> text(response[r].body),
                                     type |-> "api_error",
                                     code |-> response[r].status]
                 /\ res'[r].writeHeads = 1
                 /\ upstream'[r] = upstream[r]
                 /\ (response[r].status # RateLimited => UNCHANGED <<cursors, rotated>>)
                 /\ UNCHANGED <<accounts, stored, nearExpiry>>]_vars

C8_Witness ==
    \E r, q \in Requests :
        /\ pc[r] = "done" /\ res[r].status = 400 /\ res[r].error.message = "malformed"
        /\ pc[q] = "done" /\ res[q].status = RateLimited

\* C9: a request that receives 429 while its provider's pool holds two or
\* more accounts is retried on an account other than the rate-limited one,
\* also when other requests rotate the cursor in between.
C9_RetriedOnAnotherAccount ==
    [][\A r \in Requests :
          (ErrorRead(r) /\ response[r].status = RateLimited
                        /\ Len(Pool(providerOf(r))) >= 2)
              => /\ pc'[r] \in {"refresh", "call"}
                 /\ account'[r] # account[r]]_vars

\* C10 as stated: once a request has read the current account, no other
\* request takes a step before it advances the cursor on 429.
C10_ReadAndAdvanceAtomic ==
    [][\A r \in Requests :
          (pc[r] = "errorText" /\ response[r].status = RateLimited)
              => \A q \in Requests \ {r} : pc'[q] = pc[q]]_vars

\* C10 amended: the advance of the cursor on 429 and the retry's read of the
\* current account happen in one turn: the retry uses the account at the
\* cursor as this request advanced it, and no other request moves.
C10_AdvanceAndRetryAtomic ==
    [][\A r \in Requests :
          (pc[r] = "errorText" /\ pc'[r] \in {"refresh", "call"})
              => LET pool == Pool(providerOf(r)) IN
                 /\ Cursor(providerOf(r))' = Cursor(providerOf(r)) + 1
                 /\ account'[r] = pool[(Cursor(providerOf(r))' % Len(pool)) + 1]
                 /\ \A q \in Requests \ {r} :
                       pc'[q] = pc[q] /\ account'[q] = account[q]]_vars

C10_Witness ==
    \E r, q \in Requests :
        /\ r # q
        /\ Len(CompletionCalls(r)) >= 2
        /\ pc[r] = "call"
        /\ InFlight(q)

\* The 429 replies handled so far for requests of provider prov: the
\* completion calls answered 429 whose error body has been read
\* (index.ts:161) and whose status the handler has acted on (index.ts:164).
\* A reply whose body read rejects is an exception, handled at index.ts:213.
Handled429(prov) ==
    Cardinality({ri \in UNION {{<<r, i>> : i \in DOMAIN upstream[r]} : r \in Requests} :
        LET r == ri[1]
            e == upstream[r][ri[2]]
        IN  /\ providerOf(r) = prov
            /\ e.call = "completion"
            /\ e.status = RateLimited
            /\ e.body # "broken"
            /\ ~(pc[r] = "errorText" /\ ri[2] = Len(upstream[r]))})

\* C11: each provider's rotation cursor equals the number of 429 replies
\* handled so far for requests of that provider: every 429 advances it by
\* exactly one and no other event (success, another error status, refresh,
\* exception, lastUsed update, a request of the other provider) changes it.
C11_CursorCounts429 ==
    \A prov \in Providers : Cursor(prov) = Handled429(prov)

C11_Witness ==
    \E r, q \in Requests :
        /\ r # q
        /\ KnownModel(r) /\ KnownModel(q)
        /\ providerOf(r) = providerOf(q)
        /\ Len(CompletionCalls(r)) >= 2 /\ Len(CompletionCalls(q)) >= 1
        /\ CompletionCalls(r)[1].account = CompletionCalls(q)[1].account
        /\ CompletionCalls(r)[1].status = RateLimited
        /\ CompletionCalls(q)[1].status = RateLimited
        /\ Cursor(providerOf(r)) = 2
        /\ \E o \in Requests : pc[o] = "done" /\ res[o].status = 500

\* Request r takes a step.
Steps(r) ==
    \/ pc'[r] # pc[r]
    \/ res'[r] # res[r]
    \/ response'[r] # response[r]
    \/ upstream'[r] # upstream[r]

\* C12: the rotate-and-retry transition is taken only while nothing of the
\* client response (status, headers, body) has been written; once a response
\* has started, no step of its request rotates a cursor or issues a call.
C12_RetryOnlyBeforeFirstByte ==
    [][\A r \in Requests :
          /\ (pc[r] = "errorText" /\ (rotated' # rotated \/ pc'[r] \in {"refresh", "call"}))
                => res[r] = NewServerResponse
          /\ (res[r].headersSent /\ Steps(r))
                => /\ pc'[r] \notin {"refresh", "call", "errorText"}
                   /\ upstream'[r] = upstream[r]
                   /\ UNCHANGED <<cursors, rotated>>]_vars

C12_Witness ==
    \E r \in Requests :
        /\ pc[r] = "done"
        /\ req[r].stream
        /\ Len(CompletionCalls(r)) = 2
        /\ CompletionCalls(r)[1].status = RateLimited
        /\ CompletionCalls(r)[2].body = "broken"
        /\ res[r].contentType = "text/event-stream"
        /\ res[r].written # <<>>
        /\ ~res[r].ended

\* C16: no upstream completion call is sent with an account that is near
\* expiry: whenever a request of either provider dispatches a completion
\* call, the account it uses is not within 60 s of its expiresAt (it was
\* fresh when acquired, or the refresh call has completed before).
C16_FreshBeforeCall ==
    [][\A r \in Requests :
          (/\ Len(upstream'[r]) > Len(upstream[r])
           /\ upstream'[r][Len(upstream'[r])].call = "completion")
              => upstream'[r][Len(upstream'[r])].account \notin nearExpiry']_vars

\* The refresh call of request r fails in this step.
RefreshFails(r) ==
    /\ pc[r] = "refresh"
    /\ upstream'[r][Len(upstream[r])].call = "refresh"
    /\ upstream'[r][Len(upstream[r])].state = "failed"

\* C17: a refresh that fails is not attempted again within the request: the
\* step that sees the failure answers the client with one error response
\* (500) and ends the request; no upstream call, rotation or retry follows.
C17_RefreshFailureTerminal ==
    [][\A r \in Requests :
          /\ RefreshFails(r)
                => /\ pc'[r] = "done"
                   /\ res'[r].status = 500
                   /\ res'[r].error.message = "Internal error"
                   /\ res'[r].writeHeads = 1
                   /\ res'[r].ended
                   /\ ~res'[r].threw
                   /\ Len(upstream'[r]) = Len(upstream[r])
                   /\ UNCHANGED <<cursors, rotated, accounts, stored, nearExpiry>>
          /\ pc[r] = "done"
                => (pc'[r] = "done" /\ upstream'[r] = upstream[r] /\ res'[r] = res[r])]_vars

C17_Witness ==
    \E r \in Requests :
        /\ pc[r] = "done"
        /\ Len(upstream[r]) = 2
        /\ upstream[r][1].call = "completion"
        /\ upstream[r][1].status = RateLimited
        /\ upstream[r][2].call = "refresh"
        /\ upstream[r][2].state = "failed"
        /\ res[r].status = 500

\* C23: getNextAccount returns the account at index cursor mod len of the
\* provider's pool, or nothing for an empty pool (the request is answered
\* 503), and changes neither cursor, neither pool and no account; called again
\* with no rotation in between it returns the same account.
C23_CurrentIsPure ==
    [][\A r \in Requests :
          (Received(r) /\ KnownModel(r)')
              => LET prov == providerOf(r)'
                     pool == Pool(prov)
                 IN  /\ UNCHANGED <<pools, cursors, rotated, accounts, stored, nearExpiry>>
                     /\ IF Len(pool) = 0
                        THEN account'[r] = NoAccount /\ res'[r].status = 503
                        ELSE account'[r] = pool[(Cursor(prov) % Len(pool)) + 1]
                     /\ \A q \in Requests \ {r} :
                           (/\ KnownModel(q)
                            /\ providerOf(q) = prov
                            /\ CursorAtStart(q) = Cursor(prov))
                               => account'[r] = account[q]]_vars

C23_Witness ==
    \E prov \in Providers :
        /\ Len(Pool(prov)) = 2
        /\ Cursor(prov) = 1
        /\ KnownModel(1) /\ KnownModel(2)
        /\ providerOf(1) = prov /\ providerOf(2) = prov
        /\ started[2] = [alone |-> FALSE, antigravityIndex |-> Cursor("antigravity"),
                         codexIndex |-> Cursor("codex")]
        /\ Len(CompletionCalls(1)) = 2
        /\ account[1] = <<prov, 2>>
        /\ account[2] = <<prov, 2>>
        /\ pc[2] = "call"

\* C25: a 429 is retried only when the rotation returns an account other
\* than the one that was rate-limited, and the 429 is reported otherwise (so
\* always with a pool of one); the retry takes its account in the turn of the
\* rotation, so under every interleaving its upstream call goes out with the
\* account the rotation returned and never with the account just
\* rate-limited.
C25_RetryOnlyOnAnotherAccount ==
    /\ [][\A r \in Requests :
            (ErrorRead(r) /\ response[r].status = RateLimited)
                => LET prov == providerOf(r)
                       got == rotated'[prov][Len(rotated'[prov])]
                   IN  /\ Len(rotated'[prov]) = Len(rotated[prov]) + 1
                       /\ Len(Pool(prov)) = 1 => got = account[r]
                       /\ IF got # account[r]
                          THEN /\ pc'[r] \in {"refresh", "call"}
                               /\ account'[r] = got
                               /\ Len(upstream'[r]) = Len(upstream[r]) + 1
                               /\ upstream'[r][Len(upstream'[r])].account = got
                          ELSE /\ pc'[r] = "done"
                               /\ res'[r].status = RateLimited
                               /\ upstream'[r] = upstream[r]]_vars
    /\ [](\A r \in Requests :
            /\ \A i \in 1..(Len(CompletionCalls(r)) - 1) :
                  /\ CompletionCalls(r)[i].status = RateLimited
                  /\ CompletionCalls(r)[i + 1].account # CompletionCalls(r)[i].account
            /\ pc[r] \in {"refresh", "call"}
                  => upstream[r][Len(upstream[r])].account = account[r])

C25_Witness ==
    \E r, q \in Requests :
        /\ r # q
        /\ KnownModel(r) /\ KnownModel(q)
        /\ providerOf(r) = providerOf(q)
        /\ Len(Pool(providerOf(r))) = 2
        /\ Len(CompletionCalls(r)) = 2
        /\ CompletionCalls(r)[2].account # CompletionCalls(r)[1].account
        /\ Len(CompletionCalls(q)) = 1
        /\ CompletionCalls(q)[1].account = CompletionCalls(r)[1].account
        /\ pc[q] = "done"
        /\ res[q].status = RateLimited
        /\ Cursor(providerOf(r)) = 2

\* The response of a completed request: 200, ended, and no error in it.
Completed(x) == x.status = 200 /\ x.ended /\ ~x.threw /\ x.error = NoError

\* The step in which the handler of r returns.
Returns(r) == pc[r] # "done" /\ pc'[r] = "done"

\* C35: the step that completes a request with a 200 response sets lastUsed
\* on the account of the request's last upstream call, the one that was
\* answered 200 (the rotated account after a retry), and stores that record;
\* it changes nothing else in the accounts or in the storage.  A step that
\* ends a request with an error response, and a step that ends no request,
\* leaves every lastUsed as it was, in memory and in the storage.  As a
\* handler returns once, lastUsed is written once per completed request.
C35_LastUsedOncePerCompletedRequest ==
    /\ [][/\ \A r \in Requests :
              Returns(r) =>
                 IF Completed(res'[r])
                 THEN LET calls == CompletionCalls(r)
                          a == calls[Len(calls)].account
                      IN  /\ calls[Len(calls)].status = 200
                          /\ a = account[r]
                          /\ accounts' = [accounts EXCEPT ![a].lastUsed = r]
                          /\ stored' = [stored EXCEPT ![a] = accounts'[a]]
                 ELSE UNCHANGED <<accounts, stored>>
          /\ (\A r \in Requests : ~Returns(r)) =>
                 \A a \in AccountIds :
                    /\ accounts'[a].lastUsed = accounts[a].lastUsed
                    /\ stored'[a].lastUsed = stored[a].lastUsed]_vars
    /\ [](\A a \in AccountIds :
            accounts[a].lastUsed # 0 =>
               LET r == accounts[a].lastUsed
               IN  pc[r] = "done" /\ Completed(res[r]) /\ account[r] = a)

\* C35's case: a request completed after a retry; lastUsed is set on the
\* rotated account and not on the rate-limited one.
C35_Witness ==
    \E r \in Requests :
        /\ pc[r] = "done"
        /\ Completed(res[r])
        /\ Len(CompletionCalls(r)) = 2
        /\ CompletionCalls(r)[1].status = RateLimited
        /\ CompletionCalls(r)[1].account # account[r]
        /\ accounts[account[r]].lastUsed = r
        /\ stored[account[r]].lastUsed = r
        /\ accounts[CompletionCalls(r)[1].account].lastUsed = 0

\* The refresh calls of a request that were answered.
IsRefresh(e) == e.call = "refresh" /\ e.state = "replied"

\* C37: with no writer but the gateway, at every suspension point of every
\* interleaving the storage holds, for each pooled account, the record the
\* gateway has in memory (accessToken, expiresAt, lastUsed, email), and an
\* account's accessToken and expiresAt come from the same refresh response,
\* also when two requests refresh the same account at the same time.
C37_StorageHoldsMemory ==
    \A prov \in Providers :
        \A i \in DOMAIN Pool(prov) :
            LET a == Pool(prov)[i] IN
            /\ stored[a] = accounts[a]
            /\ accounts[a].accessToken = accounts[a].expiresAt

\* C37's case: two requests have refreshed the same account, each before
\* the other's refresh was answered.
C37_Witness ==
    \E a \in AccountIds :
        /\ accounts[a].accessToken = 2
        /\ stored[a].accessToken = 2
        /\ \A r \in Requests :
              \E k \in DOMAIN upstream[r] :
                 IsRefresh(upstream[r][k]) /\ upstream[r][k].account = a

\* -------------------------------------- one request, every call answered
\* handleChatCompletion (index.ts:114-217) followed for one request over all
\* the answers its calls can get, with no bound on the number of 429 replies.
\* The cursor is read only modulo the pool's length (index.ts:89, 93): the
\* state keeps that residue, and no log of the calls.
LiveModels == {"claude-sonnet-4.5", "gpt-5.2"}

\* index.ts:86-96 on the request's pool
liveAccount(l) ==
    IF Len(l.pool) = 0 THEN NoAccount ELSE l.pool[(l.cursor % Len(l.pool)) + 1]

\* index.ts:118-157: from the entry of handleChatCompletion to its first
\* await; stale tells whether the account is within 60 s of its expiry.
liveEnter(l, stale) ==
    IF liveAccount(l) = NoAccount
    THEN [l EXCEPT !.pc = "done", !.status = 503]
    ELSE [l EXCEPT !.account = liveAccount(l),
                   !.response = NoResponse,
                   !.pc = IF lookupModel(l.model).provider = "antigravity" /\ stale
                          THEN "refresh" ELSE "call"]

\* index.ts:376-388: the request arrives.
LiveHandleRequest ==
    /\ live.pc = "idle"
    /\ \E stale \in BOOLEAN : live' = liveEnter(live, stale)
    /\ UNCHANGED <<gateway, stream, invocation, schema, trip, answer>>

\* index.ts:139, 213-216: the refresh returns or throws.
LiveRefreshReturns ==
    /\ live.pc = "refresh"
    /\ \E ok \in BOOLEAN :
        live' = IF ok THEN [live EXCEPT !.pc = "call"]
                ELSE [live EXCEPT !.pc = "done", !.status = 500]
    /\ UNCHANGED <<gateway, stream, invocation, schema, trip, answer>>

\* index.ts:142-157, 160, 179-192: the upstream call returns or rejects.
LiveUpstreamReturns ==
    /\ live.pc = "call"
    /\ \E r \in CompletionReplies \cup {NoResponse} :
        live' = IF r = NoResponse THEN [live EXCEPT !.pc = "done", !.status = 500]
                ELSE IF r.status # 200 THEN [live EXCEPT !.pc = "errorText", !.response = r]
                ELSE IF ~live.stream THEN [live EXCEPT !.pc = "text", !.response = r]
                ELSE IF r.body = "none" THEN [live EXCEPT !.pc = "done", !.status = 200]
                ELSE [live EXCEPT !.pc = "streaming", !.response = r, !.status = 200]
    /\ UNCHANGED <<gateway, stream, invocation, schema, trip, answer>>

\* index.ts:161-176: the error body has been read (or the read rejected).
LiveErrorTextReturns ==
    /\ live.pc = "errorText"
    /\ IF live.response.body = "broken"
       THEN live' = [live EXCEPT !.pc = "done", !.status = 500]
       ELSE IF rotatesOn(live.response.status)
       THEN LET rotation == [live EXCEPT !.cursor = (@ + 1) % Len(live.pool)] IN
            IF shouldRetry(liveAccount(rotation), live.account)
            THEN \E stale \in BOOLEAN : live' = liveEnter(rotation, stale)
            ELSE live' = [rotation EXCEPT !.pc = "done", !.status = live.response.status]
       ELSE live' = [live EXCEPT !.pc = "done", !.status = live.response.status]
    /\ UNCHANGED <<gateway, stream, invocation, schema, trip, answer>>

\* index.ts:194-204: the body of a non-streaming reply has been read.
LiveTextReturns ==
    /\ live.pc = "text"
    /\ live' = [live EXCEPT
          !.pc = "done",
          !.status = IF /\ live.response.body # "broken"
                        /\ parses(lookupModel(live.model).provider, text(live.response.body))
                     THEN 200 ELSE 500]
    /\ UNCHANGED <<gateway, stream, invocation, schema, trip, answer>>

\* index.ts:234-300, 309-313: a read of the stream returns a chunk, the end
\* of the body, or rejects.
LiveStreamRead ==
    /\ live.pc = "streaming"
    /\ \/ /\ live.response.reads < MaxReads
          /\ live' = [live EXCEPT !.response.reads = @ + 1]
       \/ live' = [live EXCEPT !.pc = "done"]
    /\ UNCHANGED <<gateway, stream, invocation, schema, trip, answer>>

LiveInit ==
    /\ initializeAccounts(0, 0)
    /\ stream = NoStream
    /\ invocation = NoCall
    /\ schema = NoSchema
    /\ trip = NoTrip
    /\ answer = NoAnswer
    /\ \E m \in LiveModels, s \in BOOLEAN, n \in 0..MaxAccounts, c \in 0..MaxAccounts :
        /\ c < n \/ c = 0
        /\ live = [pc |-> "idle", model |-> m, stream |-> s,
                   pool |-> [i \in 1..n |-> <<lookupModel(m).provider, i>>],
                   cursor |-> c, account |-> NoAccount, response |-> NoResponse,
                   status |-> 0]

LiveNext ==
    \/ LiveHandleRequest
    \/ LiveRefreshReturns
    \/ LiveUpstreamReturns
    \/ LiveErrorTextReturns
    \/ LiveTextReturns
    \/ LiveStreamRead

\* Every call returns: a step that can be taken is taken.
LiveSpec == LiveInit /\ [][LiveNext]_vars /\ WF_vars(LiveNext)

\* C24: when every upstream call, refresh call and stream read returns, every
\* request eventually finishes with a response, for every pool size and every
\* pattern of upstream statuses, a pool of two or more accounts that all keep
\* answering 429 included.
C24_EveryRequestFinishes == <>(live.pc = "done")

\* ------------------------------------------------- stream functions
\* streamAntigravityResponse and streamCodexResponse with parseCodexStream,
\* run over an upstream body line by line.  The run starts where the reader
\* has been obtained (index.ts:231, codex.ts:262); every read delivers one
\* complete line of the body.  `out` holds the frames handed to res.write, in
\* order; `disconnectedAt` is the number of lines read when the client's
\* connection closed, -1 while it is open.
MaxLen == 2
MaxEvents == 3

Alphabet == {"a", "b"}

\* Strings, as the sequences of their characters.
Texts == UNION {[1..n -> Alphabet] : n \in 0..MaxLen}

\* String.prototype.slice(start)
slice(s, start) == SubSeq(s, start + 1, Len(s))

\* A test every string passes.
truthyAlways(s) == TRUE

\* The truthiness of a string (codex.ts:299, 302, 313, 316, 322;
\* index.ts:252): the empty string, like an absent one, is falsy.
truthy(s) == s # <<>>

\* The lines of a Responses body: `data: [DONE]`, a line that is no JSON, and
\* events carrying an accumulated text as output[].content[].text of type
\* output_text, as message.content.parts[0], or as both.
CodexLines ==
    {[kind |-> "done", output |-> <<>>, parts |-> <<>>],
     [kind |-> "malformed", output |-> <<>>, parts |-> <<>>]}
    \cup {[kind |-> "json", output |-> <<t>>, parts |-> <<>>] : t \in Texts}
    \cup {[kind |-> "json", output |-> <<>>, parts |-> <<t>>] : t \in Texts}
    \cup {[kind |-> "json", output |-> <<t>>, parts |-> <<t>>] : t \in Texts}

\* The parts of a Generative-Content event: a text (empty when absent), the
\* thought flag (on parts that have a text) and whether the part holds a
\* functionCall.
AntigravityParts ==
    {p \in [text : {<<>>, <<"a">>}, thought : BOOLEAN, functionCall : BOOLEAN] :
        p.thought => p.text # <<>>}

AntigravityLines ==
    {[kind |-> "done", parts |-> <<>>], [kind |-> "malformed", parts |-> <<>>]}
    \cup {[kind |-> "json", parts |-> ps] :
            ps \in {<<>>} \cup {<<p>> : p \in AntigravityParts}
                   \cup {<<p, q>> : p, q \in AntigravityParts}}

\* The frames written to the client: `data: <chunk>` and `data: [DONE]`.
contentChunk(content) == [kind |-> "content", content |-> content]

toolCallChunk == [kind |-> "tool_calls", content |-> <<>>]

DoneFrame == [kind |-> "done", content |-> <<>>]

\* The upstream's [DONE] passed on as it is.
finishChunkAsDone == DoneFrame

\* codex.ts:278-284: the chunk with delta {} and finish_reason "stop"
finishChunk == [kind |-> "finish", content |-> <<>>]

\* The whole text of the event as its delta.
deltaFullText(accumulated, lastContent) == accumulated

\* codex.ts:301, 315: text.slice(lastContent.length)
delta(accumulated, lastContent) == slice(accumulated, Len(lastContent))

\* codex.ts:292: let content: string | undefined
Undefined == [defined |-> FALSE, value |-> <<>>]

\* codex.ts:296-309: the output_text items of one event, in order
RECURSIVE outputText(_, _, _)
outputText(items, content, lastContent) ==
    IF items = <<>> THEN [content |-> content, lastContent |-> lastContent]
    ELSE LET newContent == delta(Head(items), lastContent) IN
         IF truthy(Head(items)) /\ truthy(newContent)
         THEN outputText(Tail(items), [defined |-> TRUE, value |-> newContent], Head(items))
         ELSE outputText(Tail(items), content, lastContent)

\* codex.ts:313-320: the conversation format, used when the output gave no
\* content
fallback(acc, parts) ==
    IF /\ ~(acc.content.defined /\ truthy(acc.content.value))
       /\ parts # <<>>
       /\ truthy(parts[1])
    THEN LET newContent == delta(parts[1], acc.lastContent) IN
         IF truthy(newContent)
         THEN [content |-> [defined |-> TRUE, value |-> newContent], lastContent |-> parts[1]]
         ELSE acc
    ELSE acc

\* codex.ts:274-334 with index.ts:309-313: one line of the body goes through
\* parseCodexStream, and what it yields is written.  At [DONE] the generator
\* yields the finish chunk and returns, which ends the loop of
\* streamCodexResponse.
parseCodexStream(s, line) ==
    IF line.kind = "done"
    THEN [s EXCEPT !.out = @ \o <<finishChunk, DoneFrame>>, !.state = "ended"]
    ELSE IF line.kind = "malformed" THEN s
    ELSE LET acc == fallback(outputText(line.output, Undefined, s.lastContent), line.parts)
         IN  [s EXCEPT !.lastContent = acc.lastContent,
                       !.out = IF acc.content.defined /\ truthy(acc.content.value)
                               THEN Append(@, contentChunk(acc.content.value))
                               ELSE @]

\* Chunks in which a part's function call comes before its text.
RECURSIVE partChunksCallFirst(_)
partChunksCallFirst(parts) ==
    IF parts = <<>> THEN <<>>
    ELSE (IF Head(parts).functionCall THEN <<toolCallChunk>> ELSE <<>>)
         \o (IF truthy(Head(parts).text) /\ ~Head(parts).thought
             THEN <<contentChunk(Head(parts).text)>> ELSE <<>>)
         \o partChunksCallFirst(Tail(parts))

\* index.ts:251-291: the chunks written for the parts of one event
RECURSIVE partChunks(_)
partChunks(parts) ==
    IF parts = <<>> THEN <<>>
    ELSE (IF truthy(Head(parts).text) /\ ~Head(parts).thought
          THEN <<contentChunk(Head(parts).text)>> ELSE <<>>)
         \o (IF Head(parts).functionCall THEN <<toolCallChunk>> ELSE <<>>)
         \o partChunks(Tail(parts))

\* A stream that a line which is no JSON brings to an end.
streamAntigravityResponseStrict(s, line) ==
    IF line.kind = "json" THEN [s EXCEPT !.out = @ \o partChunks(line.parts)]
    ELSE IF line.kind = "malformed" THEN [s EXCEPT !.state = "threw"]
    ELSE s

\* index.ts:242-295: one line of the body in streamAntigravityResponse
streamAntigravityResponse(s, line) ==
    IF line.kind = "json" THEN [s EXCEPT !.out = @ \o partChunks(line.parts)] ELSE s

\* index.ts:235, codex.ts:267: a read returns a line.
ReadLine ==
    /\ stream.state = "reading"
    /\ Len(stream.events) < MaxEvents
    /\ \E line \in IF stream.provider = "codex" THEN CodexLines ELSE AntigravityLines :
        LET s == [stream EXCEPT !.events = Append(@, line)] IN
        stream' = IF stream.provider = "codex" THEN parseCodexStream(s, line)
                  ELSE streamAntigravityResponse(s, line)
    /\ UNCHANGED <<gateway, invocation, schema, trip, answer, live>>

\* index.ts:236, 299-300 and codex.ts:268, index.ts:312-313: the body is at
\* its end.
ReadDone ==
    /\ stream.state = "reading"
    /\ stream' = [stream EXCEPT !.out = Append(@, DoneFrame), !.state = "ended"]
    /\ UNCHANGED <<gateway, invocation, schema, trip, answer, live>>

\* index.ts:235, codex.ts:267: a read rejects; the exception leaves the
\* stream function.
ReadRejects ==
    /\ stream.state = "reading"
    /\ stream' = [stream EXCEPT !.state = "threw"]
    /\ UNCHANGED <<gateway, invocation, schema, trip, answer, live>>

\* The client closes its connection while the stream is being written.  No
\* listener for the close of the request or of the response is registered
\* (index.ts:376-388 listens for "data" and "end" only) and neither stream
\* function looks at the connection: no code runs.  A res.write on a closed
\* connection does not throw.
ClientDisconnects ==
    /\ stream.state = "reading"
    /\ stream.disconnectedAt = -1
    /\ stream' = [stream EXCEPT !.disconnectedAt = Len(stream.events)]
    /\ UNCHANGED <<gateway, invocation, schema, trip, answer, live>>

StreamInit ==
    /\ initializeAccounts(0, 0)
    /\ stream \in {[provider |-> p, state |-> "reading", events |-> <<>>,
                    lastContent |-> <<>>, out |-> <<>>, disconnectedAt |-> -1] :
                      p \in Providers}
    /\ invocation = NoCall
    /\ schema = NoSchema
    /\ trip = NoTrip
    /\ answer = NoAnswer
    /\ live = NoLive

StreamNext == ReadLine \/ ReadDone \/ ReadRejects \/ ClientDisconnects

StreamSpec == StreamInit /\ [][StreamNext]_vars

\* C13: a stream whose reads all succeed ends with exactly one [DONE] frame,
\* written after every chunk frame and as the last thing before the response
\* is ended, also when the upstream sends a [DONE] line itself or none.
C13_DoneFrameOnceAtEnd ==
    LET out == stream.out IN
    /\ stream.state = "ended"
          => /\ out # <<>>
             /\ out[Len(out)] = DoneFrame
             /\ \A i \in 1..(Len(out) - 1) : out[i].kind # "done"
    /\ stream.state # "ended" => \A i \in DOMAIN out : out[i].kind # "done"

C13_Witness ==
    /\ stream.provider = "codex"
    /\ stream.state = "ended"
    /\ Len(stream.events) = 2
    /\ stream.events[2].kind = "done"
    /\ Len(stream.out) = 3
    /\ stream.out[1].kind = "content"
    /\ stream.out[2] = finishChunk

\* The accumulated texts the events received so far carried, in order.
IsEvent(line) == line.kind = "json"

RECURSIVE Accumulated(_)
Accumulated(lines) ==
    IF lines = <<>> THEN <<>>
    ELSE (IF ~IsEvent(Head(lines)) THEN <<>>
          ELSE IF Head(lines).output # <<>> THEN <<Head(lines).output[1]>>
          ELSE <<Head(lines).parts[1]>>)
         \o Accumulated(Tail(lines))

IsPrefix(s, t) == Len(s) <= Len(t) /\ SubSeq(t, 1, Len(s)) = s

\* The content deltas written so far, one after the other.
RECURSIVE Emitted(_)
Emitted(frames) ==
    IF frames = <<>> THEN <<>>
    ELSE (IF Head(frames).kind = "content" THEN Head(frames).content ELSE <<>>)
         \o Emitted(Tail(frames))

\* C14: in a Responses stream whose events each carry the accumulated text,
\* every text extending the one before as a prefix, the content deltas
\* written so far make up exactly the last accumulated text: each delta is
\* the text not yet emitted and nothing is sent twice.
C14_DeltasAreForwardDifference ==
    LET texts == Accumulated(stream.events) IN
    (/\ stream.provider = "codex"
     /\ \A i \in 1..(Len(texts) - 1) : IsPrefix(texts[i], texts[i + 1]))
        => Emitted(stream.out) = IF texts = <<>> THEN <<>> ELSE texts[Len(texts)]

C14_Witness ==
    LET texts == Accumulated(stream.events) IN
    /\ stream.provider = "codex"
    /\ Len(texts) = 2
    /\ texts[1] # <<>>
    /\ texts[1] # texts[2]
    /\ IsPrefix(texts[1], texts[2])
    /\ Len(stream.out) = 2
    /\ stream.out[2] = contentChunk(slice(texts[2], Len(texts[1])))

\* C15: no content chunk written by a stream function has the empty string
\* as its content, whatever the events carry (repeated, shorter or unrelated
\* texts, empty text parts).
C15_NoEmptyContentDelta ==
    \A i \in DOMAIN stream.out :
        stream.out[i].kind = "content" => stream.out[i].content # <<>>

C15_Witness ==
    LET texts == Accumulated(stream.events) IN
    /\ stream.provider = "codex"
    /\ Len(texts) = 2
    /\ texts[1] # <<>>
    /\ Len(texts[2]) <= Len(texts[1])
    /\ Len(stream.out) = 1
    /\ stream.out[1].kind = "content"

\* The stream function of provider p run over the given lines, from the
\* state s.
RECURSIVE Run(_, _, _)
Run(p, s, lines) ==
    IF lines = <<>> \/ s.state # "reading" THEN s
    ELSE LET r == [s EXCEPT !.events = Append(@, Head(lines))] IN
         Run(p, IF p = "codex" THEN parseCodexStream(r, Head(lines))
                ELSE streamAntigravityResponse(r, Head(lines)),
             Tail(lines))

Parses(line) == line.kind # "malformed"

\* A line is read in this step, and it is no JSON.
ReadsMalformed ==
    /\ Len(stream'.events) = Len(stream.events) + 1
    /\ stream'.events[Len(stream'.events)].kind = "malformed"

\* C21: a `data:` line that does not parse as JSON is skipped and the stream
\* goes on: the step that reads it writes nothing and changes nothing but the
\* position in the body, and the frames written for a body are those written
\* for the same body without its malformed lines, [DONE] at the end included;
\* no error is raised.
C21_MalformedFrameSkipped ==
    /\ [][ReadsMalformed => stream' = [stream EXCEPT !.events = stream'.events]]_vars
    /\ [](stream.state \in {"reading", "ended"} =>
            LET clean == Run(stream.provider,
                             [stream EXCEPT !.events = <<>>, !.lastContent = <<>>,
                                            !.out = <<>>, !.state = "reading"],
                             SelectSeq(stream.events, Parses))
            IN  /\ stream.lastContent = clean.lastContent
                /\ stream.out = IF stream.state = clean.state THEN clean.out
                                ELSE Append(clean.out, DoneFrame))

C21_Witness ==
    /\ stream.provider = "codex"
    /\ stream.state = "ended"
    /\ Len(stream.events) = 3
    /\ stream.events[1] = [kind |-> "json", output |-> <<<<"a">>>>, parts |-> <<>>]
    /\ stream.events[2].kind = "malformed"
    /\ stream.events[3] = [kind |-> "json", output |-> <<<<"a", "b">>>>, parts |-> <<>>]
    /\ stream.out = <<contentChunk(<<"a">>), contentChunk(<<"b">>), DoneFrame>>

\* C22: once the client has disconnected, the gateway stops reading the
\* upstream body at the next chunk boundary: the read in flight at the
\* disconnect may return, and no read follows it.
C22_AbandonsReadsAfterDisconnect ==
    stream.disconnectedAt >= 0 => Len(stream.events) <= stream.disconnectedAt + 1

\* The parts the events received so far carried, in arrival order.
RECURSIVE Arrived(_)
Arrived(lines) ==
    IF lines = <<>> THEN <<>>
    ELSE (IF IsEvent(Head(lines)) THEN Head(lines).parts ELSE <<>>) \o Arrived(Tail(lines))

\* One delta chunk for a text part that is not empty and no thought, then
\* one for a function call.
RECURSIVE OnePerPart(_)
OnePerPart(parts) ==
    IF parts = <<>> THEN <<>>
    ELSE LET part == Head(parts) IN
         (IF part.text # <<>> /\ ~part.thought
          THEN <<[kind |-> "content", content |-> part.text]>> ELSE <<>>)
         \o (IF part.functionCall THEN <<[kind |-> "tool_calls", content |-> <<>>]>> ELSE <<>>)
         \o OnePerPart(Tail(parts))

\* C30: the frames written for a Generative-Content stream are exactly one
\* delta chunk per non-empty non-thought text part and one per function-call
\* part of the events, in arrival order (a part's text before its call);
\* thought parts give no chunk and nothing else is written but the closing
\* [DONE].
C30_OneChunkPerPart ==
    stream.provider = "antigravity" =>
        stream.out = OnePerPart(Arrived(stream.events))
                     \o (IF stream.state = "ended" THEN <<DoneFrame>> ELSE <<>>)

C30_Witness ==
    /\ stream.provider = "antigravity"
    /\ stream.state = "ended"
    /\ Len(stream.events) = 3
    /\ stream.events[1] = [kind |-> "json", parts |->
          <<[text |-> <<"a">>, thought |-> FALSE, functionCall |-> TRUE],
            [text |-> <<"a">>, thought |-> TRUE, functionCall |-> FALSE]>>]
    /\ stream.events[2] = [kind |-> "json", parts |->
          <<[text |-> <<>>, thought |-> FALSE, functionCall |-> TRUE]>>]
    /\ stream.events[3] = [kind |-> "json", parts |->
          <<[text |-> <<"a">>, thought |-> TRUE, functionCall |-> TRUE],
            [text |-> <<"a">>, thought |-> FALSE, functionCall |-> FALSE]>>]
    /\ stream.out = <<contentChunk(<<"a">>), toolCallChunk, toolCallChunk, toolCallChunk,
                      contentChunk(<<"a">>), DoneFrame>>

\* ------------------------------------------------- callAntigravity
\* The request callAntigravity builds, for every antigravity model of the
\* registry and every short message list.
MaxMessages == 2

\* A ChatMessage as callAntigravity's thinking decision reads it: its role
\* and the number of its tool_calls (0 also when it has none).
MessageShapes == [role : {"system", "user", "assistant", "tool"}, toolCalls : 0..1]

MessageLists == UNION {[1..n -> MessageShapes] : n \in 0..MaxMessages}

\* options.maxTokens: absent, or a number
MaxTokensOptions == {<<>>, <<0>>, <<8000>>, <<8001>>, <<32000>>, <<200000>>}

AntigravityModels == {m \in DOMAIN MODELS : MODELS[m].provider = "antigravity"}

\* A tool history seen only in tool messages.
hasToolHistoryToolOnly(messages) ==
    \E i \in DOMAIN messages : messages[i].role = "tool"

\* part_001:322-324
hasToolHistory(messages) ==
    \E i \in DOMAIN messages :
        \/ messages[i].role = "assistant" /\ messages[i].toolCalls > 0
        \/ messages[i].role = "tool"

\* part_001:325: model.actualModel.includes("claude"), over the upstream
\* names of the registry
isClaude(actualModel) ==
    actualModel \in {"claude-sonnet-4-5", "claude-sonnet-4-5-thinking",
                     "claude-opus-4-5-thinking"}

NoThinkingConfig == [kind |-> "none", budget |-> 0, level |-> ""]

\* A ceiling applied only below the budget.
raisedBelow(maxOutputTokens, budget) ==
    IF maxOutputTokens < budget THEN 128000 ELSE maxOutputTokens

\* part_001:355-357: a limit that leaves the budget no room is raised
raised(maxOutputTokens, budget) ==
    IF maxOutputTokens <= budget THEN 128000 ELSE maxOutputTokens

\* part_001:326-368: generationConfig of the request
callAntigravity(model, messages, maxTokens) ==
    LET shouldUseThinking ==
            model.isThinking /\ ~(isClaude(model.actualModel) /\ hasToolHistory(messages))
        maxOutputTokens == IF maxTokens = <<>> THEN model.outputLimit ELSE maxTokens[1]
    IN  IF shouldUseThinking /\ model.thinkingBudget # 0
        THEN [thinkingConfig |->
                  [kind |-> "budget", budget |-> model.thinkingBudget, level |-> ""],
              maxOutputTokens |-> raised(maxOutputTokens, model.thinkingBudget)]
        ELSE IF shouldUseThinking /\ model.thinkingLevel # ""
        THEN [thinkingConfig |->
                  [kind |-> "level", budget |-> 0, level |-> model.thinkingLevel],
              maxOutputTokens |-> maxOutputTokens]
        ELSE [thinkingConfig |-> NoThinkingConfig, maxOutputTokens |-> maxOutputTokens]

\* part_001:311-383: the call builds its request and sends it.
CallAntigravity ==
    /\ invocation.state = "called"
    /\ invocation' = [invocation EXCEPT
          !.state = "sent",
          !.request = callAntigravity(MODELS[invocation.model], invocation.messages,
                                      invocation.maxTokens)]
    /\ UNCHANGED <<gateway, stream, schema, trip, answer, live>>

ThinkingInit ==
    /\ initializeAccounts(0, 0)
    /\ stream = NoStream
    /\ invocation \in [state : {"called"}, model : AntigravityModels,
                       messages : MessageLists, maxTokens : MaxTokensOptions,
                       request : {[thinkingConfig |-> NoThinkingConfig,
                                   maxOutputTokens |-> 0]}]
    /\ schema = NoSchema
    /\ trip = NoTrip
    /\ answer = NoAnswer
    /\ live = NoLive

ThinkingNext == CallAntigravity

ThinkingSpec == ThinkingInit /\ [][ThinkingNext]_vars

\* The Claude-family entries of the registry, by public id.
ClaudeFamily ==
    {"claude-sonnet-4.5", "claude-sonnet-4.5-thinking-low",
     "claude-sonnet-4.5-thinking-medium", "claude-sonnet-4.5-thinking-high",
     "claude-opus-4.5-thinking-low", "claude-opus-4.5-thinking-medium",
     "claude-opus-4.5-thinking-high"}

\* The list holds a tool message or an assistant message with a tool call.
ToolTurns(messages) ==
    \E i \in DOMAIN messages :
        \/ messages[i].role = "tool"
        \/ messages[i].role = "assistant" /\ messages[i].toolCalls >= 1

\* C18: the request of a Claude-family model whose message list holds a tool
\* message or an assistant message with at least one tool call carries no
\* thinkingConfig, whatever budget or level the model declares; for a list
\* with no such message a thinking model's request carries the thinkingConfig
\* its entry declares.
C18_NoThinkingWithToolHistory ==
    invocation.state = "sent" =>
        LET model == MODELS[invocation.model]
            config == invocation.request.thinkingConfig
        IN  /\ (invocation.model \in ClaudeFamily /\ ToolTurns(invocation.messages))
                  => config = NoThinkingConfig
            /\ (model.isThinking /\ ~ToolTurns(invocation.messages))
                  => /\ config.kind # "none"
                     /\ config.budget = model.thinkingBudget
                     /\ config.level = model.thinkingLevel

C18_Witness ==
    /\ invocation.state = "sent"
    /\ invocation.model = "claude-opus-4.5-thinking-high"
    /\ Len(invocation.messages) = 2
    /\ invocation.messages[1] = [role |-> "user", toolCalls |-> 0]
    /\ invocation.messages[2] = [role |-> "assistant", toolCalls |-> 1]
    /\ invocation.request.thinkingConfig = NoThinkingConfig

\* C33: a request that carries a thinkingConfig with a fixed budget asks for
\* more output tokens than that budget, for every model of the registry and
\* every max_tokens of the client: a limit (the client's, or the model's
\* output limit by default) that does not exceed the budget is replaced by
\* 128000, a greater one is sent as it is; a request without thinkingConfig
\* carries the limit unchanged.
C33_BudgetLeavesRoom ==
    invocation.state = "sent" =>
        LET model == MODELS[invocation.model]
            asked == IF invocation.maxTokens = <<>> THEN model.outputLimit
                     ELSE invocation.maxTokens[1]
            config == invocation.request.thinkingConfig
            sent == invocation.request.maxOutputTokens
        IN  /\ config.kind = "budget" =>
                  /\ sent > config.budget
                  /\ asked > config.budget => sent = asked
                  /\ asked <= config.budget => sent = 128000
            /\ config.kind = "none" => sent = asked

\* C33's case: the client asks for exactly the budget and 128000 is sent.
C33_Witness ==
    /\ invocation.state = "sent"
    /\ invocation.request.thinkingConfig.kind = "budget"
    /\ invocation.maxTokens = <<invocation.request.thinkingConfig.budget>>
    /\ invocation.request.maxOutputTokens = 128000

\* ------------------------------------------------- cleanSchema
\* JSON values: a scalar is its literal; an array is the sequence of its
\* items; an object is the function from its keys to their values (the order
\* of the keys is of no account for the equality of JSON values).
MaxDepth == 2
MaxItems == 2

Scalar(lit) == [t |-> "scalar", lit |-> lit]

Array(items) == [t |-> "array", items |-> items]

Object(fields) == [t |-> "object", fields |-> fields]

\* Two falsy scalars and a truthy one.
Scalars == {Scalar("null"), Scalar("0"), Scalar("\"string\"")}

\* Keys of a schema: two the sanitization reads, one that starts with "$"
\* and one of UNSUPPORTED_SCHEMA_FIELDS.
Keys == {"type", "properties", "$comment", "format"}

RECURSIVE Json(_)
Json(depth) ==
    IF depth = 0 THEN Scalars
    ELSE Scalars
         \cup {Array(items) : items \in UNION {[1..n -> Json(depth - 1)] : n \in 0..MaxItems}}
         \cup {Object(fields) :
                 fields \in UNION {[ks -> Json(depth - 1)] :
                                     ks \in {k \in SUBSET Keys : Cardinality(k) <= MaxItems}}}

\* Boolean(value): null, false, 0 and "" are falsy; objects and arrays, also
\* empty ones, are truthy.
Boolean(value) ==
    ~(value.t = "scalar" /\ value.lit \in {"null", "false", "0", "\"\""})

\* part_001:160: value && typeof value === "object"
isObject(value) == value.t \in {"array", "object"}

\* part_001:134-144, 158: key.startsWith("$") || UNSUPPORTED_SCHEMA_FIELDS.has(key),
\* over the keys above
unsupported(key) == key \in {"$comment"} \/ key \in {"format"}

\* part_001:170-172
defaultType(fields) ==
    IF /\ "properties" \in DOMAIN fields
       /\ Boolean(fields["properties"])
       /\ ~("type" \in DOMAIN fields /\ Boolean(fields["type"]))
    THEN ("type" :> Scalar("\"object\"")) @@ fields
    ELSE fields

\* A sanitization that leaves out a key whose value is an empty object or
\* array, looking at the value before it is cleaned.
RECURSIVE cleanSchemaPruningEmpty(_)
cleanSchemaPruningEmpty(obj) ==
    IF ~isObject(obj) THEN obj
    ELSE IF obj.t = "array"
    THEN Array(SelectSeq([i \in DOMAIN obj.items |-> cleanSchemaPruningEmpty(obj.items[i])],
                         Boolean))
    ELSE LET kept == {k \in DOMAIN obj.fields :
                        /\ ~unsupported(k)
                        /\ obj.fields[k] \notin {Array(<<>>), Object(<<>>)}}
         IN  Object(defaultType([k \in kept |->
                 IF isObject(obj.fields[k]) THEN cleanSchemaPruningEmpty(obj.fields[k])
                 ELSE obj.fields[k]]))

\* part_001:149-175
RECURSIVE cleanSchema(_)
cleanSchema(obj) ==
    IF ~isObject(obj) THEN obj
    ELSE IF obj.t = "array"
    THEN Array(SelectSeq([i \in DOMAIN obj.items |-> cleanSchema(obj.items[i])], Boolean))
    ELSE LET kept == {k \in DOMAIN obj.fields : ~unsupported(k)}
         IN  Object(defaultType([k \in kept |->
                 IF isObject(obj.fields[k]) THEN cleanSchema(obj.fields[k])
                 ELSE obj.fields[k]]))

\* part_001:302: cleanSchema is applied to a tool's parameters, and again to
\* what it returned.
Sanitize ==
    /\ schema.state \in {"given", "once"}
    /\ schema' = [schema EXCEPT
          !.state = IF schema.state = "given" THEN "once" ELSE "twice",
          !.before = schema.value,
          !.value = cleanSchema(schema.value)]
    /\ UNCHANGED <<gateway, stream, invocation, trip, answer, live>>

SchemaInit ==
    /\ initializeAccounts(0, 0)
    /\ stream = NoStream
    /\ invocation = NoCall
    /\ schema \in {[state |-> "given", given |-> v, before |-> v, value |-> v] :
                    v \in Json(MaxDepth)}
    /\ trip = NoTrip
    /\ answer = NoAnswer
    /\ live = NoLive

SchemaNext == Sanitize

SchemaSpec == SchemaInit /\ [][SchemaNext]_vars

\* C19: sanitization is idempotent: cleanSchema applied to a value it has
\* returned gives that value back, for every JSON value.
C19_CleanSchemaIdempotent ==
    schema.state = "twice" => schema.value = schema.before

\* A schema the first pass changes at both levels: a property loses its
\* unsupported keys, the schema loses one too and gets the default type.
C19_Witness ==
    /\ schema.state = "twice"
    /\ schema.given =
          Object(("properties" :>
                     Object(("$comment" :> Scalar("\"string\""))
                            @@ ("format" :> Scalar("null"))))
                 @@ ("format" :> Scalar("\"string\"")))
    /\ schema.value =
          Object(("properties" :> Object(<<>>)) @@ ("type" :> Scalar("\"object\"")))

\* The value without its unsupported keys: the keys of a schema object that
\* start with "$" or are on the denylist are left out at every depth, the
\* names of the properties under `properties` are no such keys, and an object
\* with properties and no type gets the type "object"; arrays keep all their
\* elements and scalars stay as they are.
RECURSIVE Stripped(_, _)
Stripped(value, names) ==
    IF value.t = "scalar" THEN value
    ELSE IF value.t = "array"
    THEN Array([i \in DOMAIN value.items |-> Stripped(value.items[i], FALSE)])
    ELSE LET kept == {k \in DOMAIN value.fields : names \/ ~unsupported(k)}
             fields == [k \in kept |->
                           Stripped(value.fields[k], ~names /\ k = "properties")]
         IN  Object(IF names THEN fields ELSE defaultType(fields))

\* C34: cleanSchema changes a schema only by leaving out the unsupported keys
\* at every depth and by giving the type "object" to an object with properties
\* and no type: every other key, every scalar and every array element, falsy
\* ones and properties named like an unsupported keyword included, is in the
\* result unchanged.
C34_OnlyUnsupportedKeysRemoved ==
    schema.state = "once" => schema.value = Stripped(schema.given, FALSE)

\* ------------------------------------------------- message conversion
\* A list of text messages is converted to a provider's request format; the
\* upstream answers each converted message with the very content it was
\* sent, and the provider's response parser maps the answer back.
MaxTurns == 2
MaxParts == 2

\* ChatMessage.content: a string, or an array of text parts.
Contents ==
    {[form |-> "string", string |-> t, parts |-> <<>>] : t \in Texts}
    \cup {[form |-> "array", string |-> <<>>, parts |-> ps] :
            ps \in UNION {[1..n -> Texts] : n \in 0..MaxParts}}

\* ChatMessage (part_002:495-501): tool_calls is the sequence of the calls'
\* ids, empty when the message has none; tool_call_id is "" when absent.
TextMessages ==
    [role : {"system", "user", "assistant"}, content : Contents,
     tool_calls : {<<>>}, tool_call_id : {""}]

TextMessageLists == UNION {[1..n -> TextMessages] : n \in 0..MaxTurns}

\* Array.prototype.join over strings
RECURSIVE join(_, _)
join(strings, separator) ==
    IF strings = <<>> THEN <<>>
    ELSE IF Len(strings) = 1 THEN strings[1]
    ELSE strings[1] \o separator \o join(Tail(strings), separator)

\* part_001:207-209, codex.ts:160-162, 170-177: the text of a content, its
\* text parts joined by a newline
joinedText(content) ==
    IF content.form = "string" THEN content.string ELSE join(content.parts, <<"\n">>)

\* part_001:232-234: one part for every text part that is not empty
RECURSIVE textParts(_)
textParts(parts) ==
    IF parts = <<>> THEN <<>>
    ELSE (IF truthy(Head(parts)) THEN <<[text |-> Head(parts)]>> ELSE <<>>)
         \o textParts(Tail(parts))

\* part_001:193-196: the response of a tool message, JSON.parse of a content
\* that is a JSON text and {result: content} of one that is not
toolContent(content) ==
    [wrapped |-> content.form # "json", value |-> content.string]

\* part_001:187-199: the Map from tool_call_id to the response; a later
\* message with the same id replaces an earlier one.  Tool messages in the
\* model have no name.
RECURSIVE toolResponses(_, _)
toolResponses(messages, map) ==
    IF messages = <<>> THEN map
    ELSE LET msg == Head(messages) IN
         toolResponses(Tail(messages),
             IF msg.role = "tool" /\ msg.tool_call_id # ""
             THEN (msg.tool_call_id :>
                      [name |-> "unknown", content |-> toolContent(msg.content)]) @@ map
             ELSE map)

\* part_001:246-260: one functionCall part for every tool call (its name and
\* arguments are left out)
functionCalls(calls) == [i \in DOMAIN calls |-> [functionCall |-> [id |-> calls[i]]]]

\* part_001:263-270: the responses found for the calls, in the order of the
\* calls
RECURSIVE functionResponses(_, _)
functionResponses(calls, map) ==
    IF calls = <<>> THEN <<>>
    ELSE (IF Head(calls) \in DOMAIN map
          THEN <<[functionResponse |-> [name |-> map[Head(calls)].name, id |-> Head(calls),
                                        response |-> map[Head(calls)].content]]>>
          ELSE <<>>)
         \o functionResponses(Tail(calls), map)

\* Tool responses that wait for the next user message or the end of the list.
flushNever(msg, pending) == FALSE

\* part_001:278: tool responses go right after the assistant message with
\* the calls
flushAfterAssistant(msg, pending) ==
    msg.role = "assistant" /\ Len(msg.tool_calls) > 0 /\ pending # <<>>

\* contents.push({role: "user", parts: pendingToolResponses}) when asked to
\* (part_001:223-226, 278-281, 284-286)
flush(acc, asked) ==
    IF asked
    THEN [acc EXCEPT !.contents = Append(@, [role |-> "user", parts |-> acc.pendingToolResponses]),
                     !.pendingToolResponses = <<>>]
    ELSE acc

\* part_001:180-289 for messages without images; acc is {contents,
\* systemInstruction, toolResponses, pendingToolResponses} as built so far
RECURSIVE convertMessages(_, _)
convertMessages(messages, acc) ==
    IF messages = <<>> THEN flush(acc, acc.pendingToolResponses # <<>>)
    ELSE LET msg == Head(messages) IN
         IF msg.role = "tool" THEN convertMessages(Tail(messages), acc)
         ELSE IF msg.role = "system"
         THEN convertMessages(Tail(messages),
                  [acc EXCEPT !.systemInstruction =
                      IF @.defined
                      THEN [@ EXCEPT !.value = @ \o <<"\n", "\n">> \o joinedText(msg.content)]
                      ELSE [defined |-> TRUE, value |-> joinedText(msg.content)]])
         ELSE LET role == IF msg.role = "assistant" THEN "model" ELSE "user"
                  before == flush(acc, role = "user" /\ acc.pendingToolResponses # <<>>)
                  parts == (IF msg.content.form = "string"
                            THEN (IF truthy(msg.content.string)
                                  THEN <<[text |-> msg.content.string]>> ELSE <<>>)
                            ELSE textParts(msg.content.parts))
                           \o functionCalls(msg.tool_calls)
                  pending == before.pendingToolResponses
                             \o functionResponses(msg.tool_calls, acc.toolResponses)
                  pushed == [before EXCEPT
                                !.contents = IF parts # <<>>
                                             THEN Append(@, [role |-> role, parts |-> parts])
                                             ELSE @,
                                !.pendingToolResponses = pending]
              IN  convertMessages(Tail(messages),
                      flush(pushed, flushAfterAssistant(msg, pending)))

\* codex.ts:157-186; acc is {instructions, input} as built so far
RECURSIVE convertToResponsesFormat(_, _)
convertToResponsesFormat(messages, acc) ==
    IF messages = <<>> THEN acc
    ELSE LET msg == Head(messages) IN
         IF msg.role = "system"
         THEN convertToResponsesFormat(Tail(messages),
                  [acc EXCEPT !.instructions =
                      IF @.defined /\ truthy(@.value)
                      THEN [@ EXCEPT !.value = @ \o <<"\n", "\n">> \o joinedText(msg.content)]
                      ELSE [defined |-> TRUE, value |-> joinedText(msg.content)]])
         ELSE IF msg.role = "tool" THEN convertToResponsesFormat(Tail(messages), acc)
         ELSE convertToResponsesFormat(Tail(messages),
                  IF truthy(joinedText(msg.content))
                  THEN [acc EXCEPT !.input = Append(@,
                           [type |-> "message",
                            role |-> IF msg.role = "assistant" THEN "assistant" ELSE "user",
                            content |-> <<[type |-> "input_text",
                                           text |-> joinedText(msg.content)]>>])]
                  ELSE acc)

\* APIResponse message.content: a string or null
Null == [isNull |-> TRUE, value |-> <<>>]

\* part_001:429, codex.ts:386: content || null
orNull(content) == IF truthy(content) THEN [isNull |-> FALSE, value |-> content] ELSE Null

\* The text of the first part only.
parseAntigravityResponseFirstPart(parts) ==
    orNull(IF parts # <<>> /\ ~parts[1].thought THEN parts[1].text ELSE <<>>)

\* part_001:393-402: the texts of the parts that are no thoughts, one after
\* the other
RECURSIVE textContent(_)
textContent(parts) ==
    IF parts = <<>> THEN <<>>
    ELSE (IF truthy(Head(parts).text) /\ ~Head(parts).thought THEN Head(parts).text ELSE <<>>)
         \o textContent(Tail(parts))

\* part_001:388-440: message.content of the parsed response
parseAntigravityResponse(parts) == orNull(textContent(parts))

\* codex.ts:361-365: the last non-empty output_text of an item's content
RECURSIVE outputTextOf(_, _)
outputTextOf(parts, content) ==
    IF parts = <<>> THEN content
    ELSE outputTextOf(Tail(parts),
             IF Head(parts).type = "output_text" /\ truthy(Head(parts).text)
             THEN Head(parts).text ELSE content)

\* codex.ts:358-368: over the items of parsed.output
RECURSIVE outputOf(_, _)
outputOf(items, content) ==
    IF items = <<>> THEN content
    ELSE outputOf(Tail(items),
             IF Head(items).type = "message"
             THEN outputTextOf(Head(items).content, content) ELSE content)

\* codex.ts:341-390 for a body of one data line holding `output`:
\* message.content of the parsed response
parseCodexResponse(output) == orNull(outputOf(output, <<>>))

\* The upstream's answer to a converted message: a candidate whose content is
\* the content sent (its parts carry no thought flag), or an output item that
\* is the input item sent, its parts being of type output_text as the
\* Responses API names the parts of an answer.
echoAntigravity(entry) == [i \in DOMAIN entry.parts |-> [text |-> entry.parts[i].text, thought |-> FALSE]]

echoCodex(item) ==
    <<[type |-> "message", role |-> "assistant",
       content |-> [i \in DOMAIN item.content |->
                       [type |-> "output_text", text |-> item.content[i].text]]]>>

\* part_001:318, codex.ts:215: the messages are converted.
Convert ==
    /\ trip.state = "given"
    /\ trip' = [trip EXCEPT
          !.state = "converted",
          !.converted =
              IF trip.provider = "antigravity"
              THEN convertMessages(trip.messages,
                       [contents |-> <<>>, systemInstruction |-> Undefined,
                        toolResponses |-> toolResponses(trip.messages, <<>>),
                        pendingToolResponses |-> <<>>]).contents
              ELSE convertToResponsesFormat(trip.messages,
                       [instructions |-> Undefined, input |-> <<>>]).input]
    /\ UNCHANGED <<gateway, stream, invocation, schema, answer, live>>

\* index.ts:199, 201: each answer goes through the provider's parser.
ParseBack ==
    /\ trip.state = "converted"
    /\ trip' = [trip EXCEPT
          !.state = "parsed",
          !.back = [i \in DOMAIN trip.converted |->
              IF trip.provider = "antigravity"
              THEN parseAntigravityResponse(echoAntigravity(trip.converted[i]))
              ELSE parseCodexResponse(echoCodex(trip.converted[i]))]]
    /\ UNCHANGED <<gateway, stream, invocation, schema, answer, live>>

RoundTripInit ==
    /\ initializeAccounts(0, 0)
    /\ stream = NoStream
    /\ invocation = NoCall
    /\ schema = NoSchema
    /\ trip \in [state : {"given"}, provider : Providers, messages : TextMessageLists,
                 converted : {<<>>}, back : {<<>>}]
    /\ answer = NoAnswer
    /\ live = NoLive

RoundTripNext == Convert \/ ParseBack

RoundTripSpec == RoundTripInit /\ [][RoundTripNext]_vars

\* The turns of a message list: its user and assistant messages.
IsTurn(msg) == msg.role # "system"

\* The text content of a message: its string, or the texts of its parts.
OriginalText(msg) ==
    IF msg.content.form = "string" THEN msg.content.string ELSE join(msg.content.parts, <<>>)

\* C20 as stated: for every list of text messages and either provider, each
\* turn converted and parsed back yields exactly its original text content.
C20_RoundTripExact ==
    trip.state = "parsed" =>
        LET turns == SelectSeq(trip.messages, IsTurn) IN
        trip.back = [i \in DOMAIN turns |-> [isNull |-> FALSE, value |-> OriginalText(turns[i])]]

\* What a provider's conversion keeps of a turn as it is: for
\* Generative-Content any text that is not empty; for Responses a string that
\* is not empty or a single text part that is not empty.
Kept(provider, msg) ==
    /\ OriginalText(msg) # <<>>
    /\ provider = "codex" => (msg.content.form = "string" \/ Len(msg.content.parts) = 1)

\* C20 amended: the same, for the lists whose turns all have a text the
\* provider's conversion keeps as it is.
C20_RoundTripOfKeptText ==
    trip.state = "parsed" =>
        LET turns == SelectSeq(trip.messages, IsTurn) IN
        (\A i \in DOMAIN turns : Kept(trip.provider, turns[i]))
            => trip.back = [i \in DOMAIN turns |->
                               [isNull |-> FALSE, value |-> OriginalText(turns[i])]]

C20_Witness ==
    /\ trip.state = "parsed"
    /\ trip.provider = "codex"
    /\ Len(trip.messages) = 2
    /\ trip.messages[1].role = "user"
    /\ trip.messages[1].content = [form |-> "string", string |-> <<"a", "b">>, parts |-> <<>>]
    /\ trip.messages[2].role = "assistant"
    /\ trip.messages[2].content = [form |-> "array", string |-> <<>>, parts |-> <<<<"b">>>>]
    /\ trip.back = <<[isNull |-> FALSE, value |-> <<"a", "b">>],
                     [isNull |-> FALSE, value |-> <<"b">>]>>

\* ------------------------------------------- conversion of tool histories
\* The conversions applied to message lists with tool calls and tool
\* results.
MaxHistory == 3
MaxCalls == 2

ToolIds == {"x", "y"}

ToolCalls == UNION {[1..n -> ToolIds] : n \in 0..MaxCalls}

String(t) == [form |-> "string", string |-> t, parts |-> <<>>]

\* A string that is a JSON text (the content of a tool message).
JsonText(t) == [form |-> "json", string |-> t, parts |-> <<>>]

\* content: null
NullContent == [form |-> "null", string |-> <<>>, parts |-> <<>>]

HistoryMessages ==
    {[role |-> "system", content |-> String(<<"a">>), tool_calls |-> <<>>, tool_call_id |-> ""]}
    \cup {[role |-> "user", content |-> String(t), tool_calls |-> <<>>, tool_call_id |-> ""] :
            t \in {<<>>, <<"a">>, <<"b">>}}
    \cup {[role |-> "assistant", content |-> c, tool_calls |-> calls, tool_call_id |-> ""] :
            c \in {NullContent, String(<<"a">>)}, calls \in ToolCalls}
    \cup {[role |-> "tool", content |-> c, tool_calls |-> <<>>, tool_call_id |-> id] :
            c \in {String(<<"a">>), String(<<"b">>), JsonText(<<"a">>)}, id \in ToolIds}

Histories == UNION {[1..n -> HistoryMessages] : n \in 0..MaxHistory}

ConversionInit ==
    /\ initializeAccounts(0, 0)
    /\ stream = NoStream
    /\ invocation = NoCall
    /\ schema = NoSchema
    /\ trip \in [state : {"given"}, provider : Providers, messages : Histories,
                 converted : {<<>>}, back : {<<>>}]
    /\ answer = NoAnswer
    /\ live = NoLive

ConversionNext == Convert

ConversionSpec == ConversionInit /\ [][ConversionNext]_vars

\* The parts of a turn, by kind.
IsCall(part) == "functionCall" \in DOMAIN part

IsResponse(part) == "functionResponse" \in DOMAIN part

IsText(part) == "text" \in DOMAIN part

HoldsResponses(turn) == \E k \in DOMAIN turn.parts : IsResponse(turn.parts[k])

NoResponses(turn) == ~HoldsResponses(turn)

\* The ids of a turn's function calls and of its function responses, in order.
CallIds(turn) ==
    LET calls == SelectSeq(turn.parts, IsCall)
    IN  [k \in DOMAIN calls |-> calls[k].functionCall.id]

ResponseIds(turn) ==
    LET responses == SelectSeq(turn.parts, IsResponse)
    IN  [k \in DOMAIN responses |-> responses[k].functionResponse.id]

\* The ids for which the list holds a tool message.
Answered(messages) ==
    {messages[j].tool_call_id : j \in {i \in DOMAIN messages : messages[i].role = "tool"}}

RECURSIVE Among(_, _)
Among(ids, set) ==
    IF ids = <<>> THEN <<>>
    ELSE (IF Head(ids) \in set THEN <<Head(ids)>> ELSE <<>>) \o Among(Tail(ids), set)

\* The user and assistant messages that give a turn: those with a text or
\* with tool calls.
GivesTurn(msg) ==
    /\ msg.role \in {"user", "assistant"}
    /\ joinedText(msg.content) # <<>> \/ msg.tool_calls # <<>>

\* C26: in the contents convertMessages builds, the function responses to an
\* assistant message's tool calls stand together in one "user" turn right
\* after the "model" turn with those calls, in the order of the calls; the
\* other turns are those of the user and assistant messages in their order,
\* user as "user" and assistant as "model".
C26_ResponsesFollowTheirCalls ==
    (trip.state = "converted" /\ trip.provider = "antigravity") =>
        LET contents == trip.converted
            answered == Answered(trip.messages)
            plain == SelectSeq(contents, NoResponses)
            source == SelectSeq(trip.messages, GivesTurn)
        IN  /\ \A i \in DOMAIN contents :
                  /\ HoldsResponses(contents[i])
                        => /\ contents[i].role = "user"
                           /\ \A k \in DOMAIN contents[i].parts : IsResponse(contents[i].parts[k])
                           /\ i > 1
                           /\ contents[i - 1].role = "model"
                           /\ ResponseIds(contents[i]) = Among(CallIds(contents[i - 1]), answered)
                  /\ (contents[i].role = "model" /\ Among(CallIds(contents[i]), answered) # <<>>)
                        => /\ i < Len(contents)
                           /\ HoldsResponses(contents[i + 1])
            /\ Len(plain) = Len(source)
            /\ \A i \in DOMAIN plain :
                  /\ plain[i].role = IF source[i].role = "assistant" THEN "model" ELSE "user"
                  /\ SelectSeq(plain[i].parts, IsText)
                        = IF joinedText(source[i].content) # <<>>
                          THEN <<[text |-> joinedText(source[i].content)]>> ELSE <<>>
                  /\ CallIds(plain[i]) = source[i].tool_calls

C26_Witness ==
    /\ trip.state = "converted"
    /\ trip.provider = "antigravity"
    /\ trip.messages =
          <<[role |-> "assistant", content |-> NullContent, tool_calls |-> <<"x", "y">>,
             tool_call_id |-> ""],
            [role |-> "tool", content |-> String(<<"b">>), tool_calls |-> <<>>,
             tool_call_id |-> "y"],
            [role |-> "tool", content |-> JsonText(<<"a">>), tool_calls |-> <<>>,
             tool_call_id |-> "x"]>>
    /\ trip.converted =
          <<[role |-> "model", parts |-> <<[functionCall |-> [id |-> "x"]],
                                            [functionCall |-> [id |-> "y"]]>>],
            [role |-> "user", parts |->
                <<[functionResponse |-> [name |-> "unknown", id |-> "x",
                                         response |-> [wrapped |-> FALSE, value |-> <<"a">>]]],
                  [functionResponse |-> [name |-> "unknown", id |-> "y",
                                         response |-> [wrapped |-> TRUE, value |-> <<"b">>]]]>>]>>

\* The tool messages of a list, and for each the response it asks for.
IsToolMessage(msg) == msg.role = "tool"

Results(messages) ==
    LET tools == SelectSeq(messages, IsToolMessage)
    IN  [k \in DOMAIN tools |->
            [id |-> tools[k].tool_call_id, response |-> toolContent(tools[k].content)]]

\* The function responses of the contents, in order.
RECURSIVE Responses(_)
Responses(contents) ==
    IF contents = <<>> THEN <<>>
    ELSE LET parts == SelectSeq(Head(contents).parts, IsResponse)
         IN  [k \in DOMAIN parts |->
                 [id |-> parts[k].functionResponse.id,
                  response |-> parts[k].functionResponse.response]]
             \o Responses(Tail(contents))

Count(seq, e) == Cardinality({k \in DOMAIN seq : seq[k] = e})

\* Every tool message names a call of an assistant message before it.
ReferencesPriorCalls(messages) ==
    \A j \in DOMAIN messages :
        messages[j].role = "tool"
            => \E i \in 1..(j - 1) :
                  /\ messages[i].role = "assistant"
                  /\ \E k \in DOMAIN messages[i].tool_calls :
                        messages[i].tool_calls[k] = messages[j].tool_call_id

\* C27: when every tool message names a call of a prior assistant message,
\* the contents hold exactly one function response per tool message, with
\* that message's content: none is dropped and none repeated, also when an
\* id occurs in several tool messages or in several assistant messages.
C27_OneResponsePerToolMessage ==
    (/\ trip.state = "converted"
     /\ trip.provider = "antigravity"
     /\ ReferencesPriorCalls(trip.messages))
        => LET results == Results(trip.messages)
               responses == Responses(trip.converted)
           IN  /\ Len(responses) = Len(results)
               /\ \A k \in DOMAIN results :
                     Count(responses, results[k]) = Count(results, results[k])

\* The messages that are neither system nor tool messages.
IsInputMessage(msg) == msg.role \notin {"system", "tool"}

\* C28: convertToResponsesFormat maps the messages that are neither system
\* nor tool messages one-to-one and in order onto input items: as many items
\* as such messages, the i-th item with the role and the text of the i-th
\* message, also when that text is empty or null.
C28_OneItemPerMessage ==
    (trip.state = "converted" /\ trip.provider = "codex")
        => LET source == SelectSeq(trip.messages, IsInputMessage)
               input == trip.converted
           IN  /\ Len(input) = Len(source)
               /\ \A i \in DOMAIN input :
                     /\ input[i].role = source[i].role
                     /\ Len(input[i].content) = 1
                     /\ input[i].content[1].text = joinedText(source[i].content)

\* ------------------------------------- parsing of a non-streamed response
\* parseAntigravityResponse (part_001:388-440) applied to one upstream
\* response: the choice it returns for every list of candidates.

\* part_001:403: a part without functionCall
NoFunctionCall == [present |-> FALSE, id |-> "", name |-> ""]

\* The functionCall of a part: its id may be missing (""), its name is one of
\* two.
FunctionCalls ==
    {NoFunctionCall}
    \cup [present : {TRUE}, id : {"", "x"}, name : {"f", "g"}]

\* The parts of a candidate: a text (possibly empty), the thought flag and a
\* function call, each of them optional.
ResponseParts ==
    [text : {<<>>, <<"a">>, <<"b">>}, thought : BOOLEAN, functionCall : FunctionCalls]

\* candidate.finishReason; "" stands for a response without one
FinishReasons == {"STOP", "MAX_TOKENS", "OTHER", ""}

\* candidate.content.parts; <<>> also stands for a candidate without content
\* (part_001:394, `?? []`)
PartLists == UNION {[1..n -> ResponseParts] : n \in 0..MaxParts}

FirstCandidates == [finishReason : FinishReasons, parts : PartLists]

\* A second candidate, which the upstream may add.
OtherCandidate ==
    [finishReason |-> "MAX_TOKENS",
     parts |-> <<[text |-> <<"b">>, thought |-> FALSE,
                  functionCall |-> [present |-> TRUE, id |-> "x", name |-> "g"]]>>]

\* response.response.candidates; <<>> also stands for a response without
\* candidates (part_001:393, `?.`)
CandidateLists ==
    {<<>>}
    \cup {<<c>> : c \in FirstCandidates}
    \cup {<<c, OtherCandidate>> : c \in FirstCandidates}

\* part_001:405: `call_` followed by eight characters of a random UUID
SyntheticIds == {"call_u", "call_v"}

\* part_001:403-412: one tool call per part that has a functionCall, in the
\* parts' order; ids[k] is the random id drawn at the k-th part
RECURSIVE toolCalls(_, _)
toolCalls(parts, ids) ==
    IF parts = <<>> THEN <<>>
    ELSE (IF Head(parts).functionCall.present
          THEN <<[id |-> IF Head(parts).functionCall.id # ""
                         THEN Head(parts).functionCall.id ELSE Head(ids),
                  type |-> "function",
                  name |-> Head(parts).functionCall.name]>>
          ELSE <<>>)
         \o toolCalls(Tail(parts), Tail(ids))

\* part_001:415-418
finishReason(reason, calls) ==
    IF reason = "STOP" THEN "stop"
    ELSE IF reason = "MAX_TOKENS" THEN "length"
    ELSE IF Len(calls) > 0 THEN "tool_calls"
    ELSE "stop"

\* The choice built from the second candidate when there is one.
parseAntigravityChoiceLast(candidates, ids) ==
    LET candidate == IF candidates = <<>> THEN [finishReason |-> "", parts |-> <<>>]
                     ELSE candidates[Len(candidates)]
        calls == toolCalls(candidate.parts, ids)
    IN  [index |-> 0,
         message |-> [role |-> "assistant",
                      content |-> parseAntigravityResponse(candidate.parts),
                      tool_calls |-> IF Len(calls) > 0
                                     THEN [defined |-> TRUE, value |-> calls]
                                     ELSE Undefined],
         finish_reason |-> finishReason(candidate.finishReason, calls)]

\* part_001:393-433: choices[0] of the parsed response
parseAntigravityChoice(candidates, ids) ==
    LET candidate == IF candidates = <<>> THEN [finishReason |-> "", parts |-> <<>>]
                     ELSE candidates[1]
        calls == toolCalls(candidate.parts, ids)
    IN  [index |-> 0,
         message |-> [role |-> "assistant",
                      content |-> parseAntigravityResponse(candidate.parts),
                      tool_calls |-> IF Len(calls) > 0
                                     THEN [defined |-> TRUE, value |-> calls]
                                     ELSE Undefined],
         finish_reason |-> finishReason(candidate.finishReason, calls)]

\* index.ts:199: the upstream's response goes through the parser.
ParseResponse ==
    /\ answer.state = "received"
    /\ \E ids \in [1..MaxParts -> SyntheticIds] :
          answer' = [answer EXCEPT !.state = "parsed",
                                   !.choice = parseAntigravityChoice(answer.candidates, ids)]
    /\ UNCHANGED <<gateway, stream, invocation, schema, trip, live>>

ParseInit ==
    /\ initializeAccounts(0, 0)
    /\ stream = NoStream
    /\ invocation = NoCall
    /\ schema = NoSchema
    /\ trip = NoTrip
    /\ answer \in [state : {"received"}, candidates : CandidateLists, choice : {<<>>}]
    /\ live = NoLive

ParseNext == ParseResponse

ParseSpec == ParseInit /\ [][ParseNext]_vars

\* The text a part contributes to the reply.
Spoken(part) == ~part.thought /\ part.text # <<>>

HasCall(part) == part.functionCall.present

\* The texts of a list of parts, one after the other.
RECURSIVE Joined(_)
Joined(parts) == IF parts = <<>> THEN <<>> ELSE Head(parts).text \o Joined(Tail(parts))

\* C29: the parsed choice is made from the first candidate alone: its content
\* is the concatenation, in order, of the texts of that candidate's parts
\* that are no thoughts, and null when that is empty; its tool calls are one
\* per part with a function call, in the parts' order; its finish_reason is
\* "stop" for STOP, "length" for MAX_TOKENS, and otherwise "tool_calls" when
\* there is a tool call and "stop" when there is none.
C29_ChoiceOfFirstCandidate ==
    answer.state = "parsed"
        => LET parts == IF answer.candidates = <<>> THEN <<>>
                        ELSE answer.candidates[1].parts
               reason == IF answer.candidates = <<>> THEN ""
                         ELSE answer.candidates[1].finishReason
               said == Joined(SelectSeq(parts, Spoken))
               asked == SelectSeq(parts, HasCall)
               message == answer.choice.message
               calls == message.tool_calls.value
           IN  /\ message.content.isNull = (said = <<>>)
               /\ message.content.value = said
               /\ message.tool_calls.defined = (asked # <<>>)
               /\ Len(calls) = Len(asked)
               /\ \A k \in DOMAIN calls :
                     /\ calls[k].name = asked[k].functionCall.name
                     /\ IF asked[k].functionCall.id # ""
                        THEN calls[k].id = asked[k].functionCall.id
                        ELSE calls[k].id \in SyntheticIds
               /\ answer.choice.finish_reason
                     = CASE reason = "STOP" -> "stop"
                         [] reason = "MAX_TOKENS" -> "length"
                         [] OTHER -> IF asked # <<>> THEN "tool_calls" ELSE "stop"

\* C29's case: two candidates, the first with a thought, a text and two
\* function calls and with finishReason STOP, parsed to "stop".
C29_Witness ==
    /\ answer.state = "parsed"
    /\ Len(answer.candidates) = 2
    /\ answer.candidates[1].finishReason = "STOP"
    /\ \E k \in DOMAIN answer.candidates[1].parts :
          answer.candidates[1].parts[k].thought
    /\ Len(SelectSeq(answer.candidates[1].parts, HasCall)) = 2
    /\ answer.choice.finish_reason = "stop"
    /\ answer.choice.message.tool_calls.defined

\* ------------------------------------------- the upstream body, read in chunks
\* The read loops of streamAntigravityResponse (index.ts:231-296) and
\* parseCodexStream (codex.ts:262-334) over a body that arrives in chunks cut
\* at any character: `body` is the upstream's text, `position` the number of
\* its characters read so far, `buffer` the loop's buffer, and `joined` tells
\* that a line put together from two or more chunks has given a frame.
MaxBodyLines == 2

\* "data: "
DataPrefix == <<"d", "a", "t", "a", ":", " ">>

\* "[DONE]"
DoneText == <<"[", "D", "O", "N", "E", "]">>

\* The events a body can hold, by the character that stands for the JSON
\* text between the braces.
UpstreamEvents(provider) ==
    IF provider = "codex"
    THEN "1" :> [kind |-> "json", output |-> <<<<"a">>>>, parts |-> <<>>]
      @@ "2" :> [kind |-> "json", output |-> <<<<"a", "b">>>>, parts |-> <<>>]
    ELSE "1" :> [kind |-> "json",
                 parts |-> <<[text |-> <<"a">>, thought |-> FALSE, functionCall |-> FALSE]>>]
      @@ "2" :> [kind |-> "json",
                 parts |-> <<[text |-> <<>>, thought |-> FALSE, functionCall |-> TRUE]>>]

\* The lines of a body, without their line feed: two events, an event before
\* a carriage return, [DONE], a JSON text cut short, an empty line and a line
\* whose field name is not followed by a space.
BodyLines ==
    {DataPrefix \o <<"{", "1", "}">>,
     DataPrefix \o <<"{", "2", "}">>,
     DataPrefix \o <<"{", "2", "}", "\r">>,
     DataPrefix \o DoneText,
     DataPrefix \o <<"{", "1">>,
     <<>>,
     <<"d", "a", "t", "a", ":", "{", "1", "}">>}

RECURSIVE Terminated(_)
Terminated(lines) ==
    IF lines = <<>> THEN <<>> ELSE Head(lines) \o <<"\n">> \o Terminated(Tail(lines))

\* Bodies of up to MaxBodyLines lines, each ended by a line feed, and then
\* possibly a last line that no line feed ends.
UpstreamBodies ==
    {Terminated(lines) \o last :
        lines \in UNION {[1..n -> BodyLines] : n \in 0..MaxBodyLines},
        last \in BodyLines}

\* String.prototype.split("\n"): the pieces between the line feeds
RECURSIVE split(_, _)
split(s, piece) ==
    IF s = <<>> THEN <<piece>>
    ELSE IF Head(s) = "\n" THEN <<piece>> \o split(Tail(s), <<>>)
    ELSE split(Tail(s), Append(piece, Head(s)))

\* String.prototype.startsWith
startsWith(s, prefix) == Len(s) >= Len(prefix) /\ SubSeq(s, 1, Len(prefix)) = prefix

WhiteSpace == {" ", "\r"}

\* String.prototype.trim
RECURSIVE trim(_)
trim(s) ==
    IF s = <<>> THEN s
    ELSE IF Head(s) \in WhiteSpace THEN trim(Tail(s))
    ELSE IF s[Len(s)] \in WhiteSpace THEN trim(SubSeq(s, 1, Len(s) - 1))
    ELSE s

\* index.ts:244-248 with JSON.parse, codex.ts:276-288: what the data of a
\* line is taken for
decode(provider, data) ==
    LET events == UpstreamEvents(provider)
        none == IF provider = "codex" THEN [output |-> <<>>, parts |-> <<>>]
                ELSE [parts |-> <<>>]
    IN  IF data = DoneText THEN [kind |-> "done"] @@ none
        ELSE IF Len(data) = 3 /\ data[1] = "{" /\ data[3] = "}" /\ data[2] \in DOMAIN events
        THEN events[data[2]]
        ELSE [kind |-> "malformed"] @@ none

\* index.ts:242-295, codex.ts:274-333: the body of the loop over the lines
onLine(s, line) ==
    IF ~startsWith(line, DataPrefix) THEN s
    ELSE LET data == trim(slice(line, 6)) IN
         IF s.provider = "codex" THEN parseCodexStream(s, decode("codex", data))
         ELSE streamAntigravityResponse(s, decode("antigravity", data))

\* The loop over the lines; a generator that has returned takes no more.
RECURSIVE forLines(_, _)
forLines(s, lines) ==
    IF lines = <<>> \/ s.state # "reading" THEN s
    ELSE forLines(onLine(s, Head(lines)), Tail(lines))

\* A buffer that forgets what follows the last line feed.
remainderDropped(pieces) == <<>>

\* index.ts:240, codex.ts:272: buffer = lines.pop() || ""
remainder(pieces) == pieces[Len(pieces)]

\* index.ts:238-295, codex.ts:270-333: one chunk has been read
readChunk(s, chunk) ==
    LET pieces == split(s.buffer \o chunk, <<>>)
    IN  forLines([s EXCEPT !.buffer = remainder(pieces), !.position = @ + Len(chunk)],
                 SubSeq(pieces, 1, Len(pieces) - 1))

\* index.ts:236, 299-300 and codex.ts:268, index.ts:312-313: the body is at
\* its end
readEnd(s) == [s EXCEPT !.out = Append(@, DoneFrame), !.state = "ended"]

\* index.ts:235, codex.ts:267: a read returns the next characters of the
\* body, as many as the transport delivers at once.
ReadChunk ==
    /\ stream.state = "reading"
    /\ stream.position < Len(stream.body)
    /\ \E n \in 1..(Len(stream.body) - stream.position) :
          LET chunk == SubSeq(stream.body, stream.position + 1, stream.position + n)
              pieces == split(stream.buffer \o chunk, <<>>)
              after == readChunk(stream, chunk)
          IN  stream' = [after EXCEPT !.joined =
                            \/ @
                            \/ /\ stream.buffer # <<>>
                               /\ Len(pieces) > 1
                               /\ onLine(stream, pieces[1]).out # stream.out]
    /\ UNCHANGED <<gateway, invocation, schema, trip, answer, live>>

\* index.ts:236, codex.ts:268: the read after the last chunk
ReadEnd ==
    /\ stream.state = "reading"
    /\ stream.position = Len(stream.body)
    /\ stream' = readEnd(stream)
    /\ UNCHANGED <<gateway, invocation, schema, trip, answer, live>>

ChunkInit ==
    /\ initializeAccounts(0, 0)
    /\ stream \in {[provider |-> p, state |-> "reading", events |-> <<>>,
                    lastContent |-> <<>>, out |-> <<>>, disconnectedAt |-> -1,
                    body |-> b, position |-> 0, buffer |-> <<>>, joined |-> FALSE] :
                      p \in Providers, b \in UpstreamBodies}
    /\ invocation = NoCall
    /\ schema = NoSchema
    /\ trip = NoTrip
    /\ answer = NoAnswer
    /\ live = NoLive

ChunkNext == ReadChunk \/ ReadEnd

ChunkSpec == ChunkInit /\ [][ChunkNext]_vars

\* The run that reads the whole body in one chunk.
InOneChunk ==
    LET start == [stream EXCEPT !.state = "reading", !.lastContent = <<>>, !.out = <<>>,
                                !.position = 0, !.buffer = <<>>]
        read == IF stream.body = <<>> THEN start ELSE readChunk(start, stream.body)
    IN  IF read.state = "reading" THEN readEnd(read) ELSE read

\* C31: however the body is cut into chunks, a stream that has come to its
\* end has written the frames, in the order, that the run reading the whole
\* body in one chunk writes; the frames depend on the body's text alone.
C31_FramesIndependentOfCuts ==
    stream.state = "ended"
        => /\ stream.out = InOneChunk.out
           /\ stream.lastContent = InOneChunk.lastContent

\* C31's case: a stream at its end in which a line that arrived in pieces
\* has given a frame.
C31_Witness ==
    /\ stream.state = "ended"
    /\ stream.joined
    /\ Len(stream.out) >= 3

\* --------------------------------------- the two shapes of a Responses event
\* parseCodexStream (codex.ts:286-331) and parseCodexResponse (codex.ts:
\* 348-377) over events that carry a text in the output-items shape, in the
\* conversation-message shape, or a text in each.  The stream is in `stream`;
\* the lines parseCodexResponse has gone through and its variable `content`
\* are in `answer`.
MaxShapedEvents == 2

\* Events with any text in either shape: output is the list of the texts of
\* the output_text items, parts the list message.content.parts.
ShapedLines ==
    {[kind |-> "done", output |-> <<>>, parts |-> <<>>],
     [kind |-> "malformed", output |-> <<>>, parts |-> <<>>]}
    \cup [kind : {"json"},
          output : {<<>>} \cup {<<t>> : t \in Texts},
          parts : {<<>>} \cup {<<t>> : t \in Texts}]

\* codex.ts:358-368: the last non-empty output_text of the event, or the
\* content so far
RECURSIVE lastOutputText(_, _)
lastOutputText(items, content) ==
    IF items = <<>> THEN content
    ELSE lastOutputText(Tail(items), IF truthy(Head(items)) THEN Head(items) ELSE content)

\* codex.ts:351-376: one line of the body in parseCodexResponse.  The line
\* with [DONE] and a line that is no JSON leave the content as it is.
parseCodexLine(content, line) ==
    IF line.kind # "json" THEN content
    ELSE LET found == lastOutputText(line.output, content) IN
         IF ~truthy(found) /\ line.parts # <<>> THEN line.parts[1] ELSE found

\* codex.ts:267-333: the stream's next event
ReadEvent ==
    /\ stream.state = "reading"
    /\ Len(stream.events) < MaxShapedEvents
    /\ \E line \in ShapedLines :
          stream' = parseCodexStream([stream EXCEPT !.events = Append(@, line)], line)
    /\ UNCHANGED <<gateway, invocation, schema, trip, answer, live>>

\* codex.ts:351: the next line of the text
ParseLine ==
    /\ answer.state = "parsing"
    /\ Len(answer.lines) < MaxShapedEvents
    /\ \E line \in ShapedLines :
          answer' = [answer EXCEPT !.lines = Append(@, line),
                                   !.content = parseCodexLine(@, line)]
    /\ UNCHANGED <<gateway, stream, invocation, schema, trip, live>>

ShapeInit ==
    /\ initializeAccounts(0, 0)
    /\ \/ /\ stream = [provider |-> "codex", state |-> "reading", events |-> <<>>,
                       lastContent |-> <<>>, out |-> <<>>, disconnectedAt |-> -1]
          /\ answer = NoAnswer
       \/ /\ stream = NoStream
          /\ answer = [state |-> "parsing", candidates |-> <<>>, choice |-> <<>>,
                       lines |-> <<>>, content |-> <<>>]
    /\ invocation = NoCall
    /\ schema = NoSchema
    /\ trip = NoTrip
    /\ live = NoLive

ShapeNext == ReadEvent \/ ParseLine

ShapeSpec == ShapeInit /\ [][ShapeNext]_vars

\* An event matches the newer shape: it has an output_text item with a text.
MatchesNewer(line) ==
    line.kind = "json" /\ \E k \in DOMAIN line.output : line.output[k] # <<>>

\* The same lines without the conversation-message shape in the events that
\* match the newer shape.
NewerOnly(lines) ==
    [i \in DOMAIN lines |->
        IF MatchesNewer(lines[i]) THEN [lines[i] EXCEPT !.parts = <<>>] ELSE lines[i]]

RECURSIVE ParsedContent(_, _)
ParsedContent(lines, content) ==
    IF lines = <<>> THEN content
    ELSE ParsedContent(Tail(lines), parseCodexLine(content, Head(lines)))

\* C32: in the events that match the newer shape the text comes from that
\* shape alone: the stream's frames and the parsed content are those of the
\* same events with message.content.parts left out of every event that
\* matches the newer shape, also when such an event's text adds nothing to
\* what has been emitted.
C32_NewerShapeOnly ==
    /\ stream.state \in {"reading", "ended"} =>
          stream.out = Run("codex",
                           [stream EXCEPT !.events = <<>>, !.lastContent = <<>>,
                                          !.out = <<>>, !.state = "reading"],
                           NewerOnly(stream.events)).out
    /\ answer.state = "parsing" =>
          answer.content = ParsedContent(NewerOnly(answer.lines), <<>>)

\* The part of C32 about parseCodexResponse.
ParsedFromNewerOnly ==
    answer.state = "parsing" =>
        answer.content = ParsedContent(NewerOnly(answer.lines), <<>>)

\* ------------------------------------------------ the process from its start
\* main (index.ts:397-421): initializeAccounts builds the pools from the
\* storage, one account after the other, and only then the server listens;
\* from then on it answers /health and serves one chat completion.  While it
\* listens, the account-management tool (cli/add-account.ts) may remove an
\* account from the storage.  `boot` holds the loop of initializeAccounts
\* (the list it goes through, the index of the next account and the accounts
\* whose refresh failed) and the last report of /health.

\* getAccountsByProvider (storage, src/README.md:343-346): the active
\* accounts of the provider, in the order of the file
getAccountsByProviderAll(store, provider) ==
    LET Held(id) == store[id] # Absent
    IN  SelectSeq([i \in 1..MaxAccounts |-> <<provider, i>>], Held)

getAccountsByProvider(store, provider) ==
    LET Active(id) == store[id] # Absent /\ store[id].isActive
    IN  SelectSeq([i \in 1..MaxAccounts |-> <<provider, i>>], Active)

\* The emails the verification call can report.
Emails == {0, 1}

\* A verification that stamps the account before it looks at the token.
refreshCodexTokenStampingFirst(record, ok, email) ==
    IF ~record.sessionToken \/ ~ok
    THEN [threw |-> TRUE, account |-> [record EXCEPT !.lastUsed = -1]]
    ELSE [threw |-> FALSE, account |-> [record EXCEPT !.lastUsed = -1, !.email = email]]

\* refreshCodexToken (codex.ts:114-128) with verifyCodexToken (codex.ts:
\* 47-74): it throws for an account without session token and when the
\* verification is not answered 2xx; otherwise it sets lastUsed (-1 stands
\* for the time of the start) and the email read back.  `account` is the
\* object as the call leaves it.
refreshCodexToken(record, ok, email) ==
    IF ~record.sessionToken \/ ~ok
    THEN [threw |-> TRUE, account |-> record]
    ELSE [threw |-> FALSE, account |-> [record EXCEPT !.lastUsed = -1, !.email = email]]

\* index.ts:58-69: one account of the first loop.  An account within 60 s of
\* its expiry is refreshed, and left out of the pool when that fails.
InitializeAntigravity ==
    /\ boot.pc = "antigravity"
    /\ boot.i <= Len(boot.list)
    /\ LET a == boot.list[boot.i] IN
       \E ok \in BOOLEAN :
          /\ a \notin nearExpiry => ok
          /\ IF a \in nearExpiry /\ ok
             THEN /\ accounts' = [accounts EXCEPT ![a] = refreshAntigravityToken(@)]
                  /\ nearExpiry' = nearExpiry \ {a}
                  /\ stored' = upsertAccount(stored, a, accounts'[a])
             ELSE UNCHANGED <<accounts, nearExpiry, stored>>
          /\ antigravityAccounts' = IF ok THEN Append(antigravityAccounts, a)
                                    ELSE antigravityAccounts
          /\ boot' = [boot EXCEPT !.i = @ + 1,
                                  !.failed = IF ok THEN @ ELSE @ \cup {a}]
    /\ UNCHANGED <<codexAccounts, cursors, pc, req, account, response, res, upstream,
                   rotated, started, functions>>

\* index.ts:72: the first loop is over; the codex accounts are read.
LoadCodexAccounts ==
    /\ boot.pc = "antigravity"
    /\ boot.i > Len(boot.list)
    /\ boot' = [boot EXCEPT !.pc = "codex", !.i = 1,
                            !.list = getAccountsByProvider(stored, "codex")]
    /\ UNCHANGED <<pools, cursors, accounts, nearExpiry, stored, pc, req, account,
                   response, res, upstream, rotated, started, functions>>

\* index.ts:73-81: one account of the second loop
InitializeCodex ==
    /\ boot.pc = "codex"
    /\ boot.i <= Len(boot.list)
    /\ LET a == boot.list[boot.i] IN
       \E ok \in BOOLEAN, email \in Emails :
          LET call == refreshCodexToken(accounts[a], ok, email) IN
          /\ ~ok => email = 0
          /\ accounts' = [accounts EXCEPT ![a] = call.account]
          /\ stored' = IF call.threw THEN stored
                       ELSE upsertAccount(stored, a, call.account)
          /\ codexAccounts' = IF call.threw THEN codexAccounts
                              ELSE Append(codexAccounts, a)
          /\ boot' = [boot EXCEPT !.i = @ + 1,
                                  !.failed = IF call.threw THEN @ \cup {a} ELSE @]
    /\ UNCHANGED <<antigravityAccounts, cursors, nearExpiry, pc, req, account, response,
                   res, upstream, rotated, started, functions>>

\* index.ts:409-413: initializeAccounts has returned; the server listens.
Listen ==
    /\ boot.pc = "codex"
    /\ boot.i > Len(boot.list)
    /\ boot' = [boot EXCEPT !.pc = "listening"]
    /\ UNCHANGED <<pools, cursors, accounts, nearExpiry, stored, pc, req, account,
                   response, res, upstream, rotated, started, functions>>

\* index.ts:352-360: GET /health
Health ==
    /\ boot.pc = "listening"
    /\ boot' = [boot EXCEPT !.health =
                   [status |-> 200,
                    antigravity_accounts |-> Len(antigravityAccounts),
                    codex_accounts |-> Len(codexAccounts)]]
    /\ UNCHANGED <<pools, cursors, accounts, nearExpiry, stored, pc, req, account,
                   response, res, upstream, rotated, started, functions>>

\* The accounts that may be missing from the storage at one time.
MaxRemovals == 1

\* cli/add-account.ts:182-217: the tool removes an account the storage holds.
RemoveAccount(a) ==
    /\ boot.pc = "listening"
    /\ stored[a] # Absent
    /\ Cardinality({b \in AccountIds : stored[b] = Absent}) < MaxRemovals
    /\ stored' = removeAccount(stored, a)
    /\ UNCHANGED <<pools, cursors, accounts, nearExpiry, pc, req, account, response,
                   res, upstream, rotated, started, boot, functions>>

\* The storage as the process finds it: each account active or not, the
\* codex accounts with or without a session token, any of the antigravity
\* accounts within 60 s of its expiry.
StoredAccounts ==
    {store \in [AccountIds -> [accessToken : {0}, expiresAt : {0}, lastUsed : {0},
                               email : {0}, isActive : BOOLEAN, sessionToken : BOOLEAN]] :
        \A a \in AccountIds :
            store[a].sessionToken => a[1] = "codex" /\ store[a].isActive}

ProcessInit ==
    /\ stored \in StoredAccounts
    /\ accounts = stored
    /\ nearExpiry \in SUBSET {a \in AccountIds : a[1] = "antigravity" /\ stored[a].isActive}
    /\ antigravityAccounts = <<>>
    /\ codexAccounts = <<>>
    /\ currentAntigravityIndex = 0
    /\ currentCodexIndex = 0
    /\ pc = [r \in Requests |-> "idle"]
    /\ req = [r \in Requests |-> NoRequest]
    /\ account = [r \in Requests |-> NoAccount]
    /\ response = [r \in Requests |-> NoResponse]
    /\ res = [r \in Requests |-> NewServerResponse]
    /\ upstream = [r \in Requests |-> <<>>]
    /\ rotated = [p \in Providers |-> <<>>]
    /\ started = [r \in Requests |->
          [alone |-> FALSE, antigravityIndex |-> 0, codexIndex |-> 0]]
    /\ boot = [pc |-> "antigravity", i |-> 1, failed |-> {}, health |-> NoHealth,
               list |-> getAccountsByProvider(stored, "antigravity")]
    /\ stream = NoStream
    /\ invocation = NoCall
    /\ schema = NoSchema
    /\ trip = NoTrip
    /\ answer = NoAnswer
    /\ live = NoLive

ProcessNext ==
    \/ InitializeAntigravity
    \/ LoadCodexAccounts
    \/ InitializeCodex
    \/ Listen
    \/ Health
    \/ \E a \in AccountIds : RemoveAccount(a)
    \/ boot.pc = "listening" /\ HandleRequest(1)
    \/ RefreshReturns(1)
    \/ UpstreamReturns(1)
    \/ ErrorTextReturns(1)
    \/ TextReturns(1)
    \/ StreamRead(1)
    \/ \E a \in AccountIds : TokenAges(a)

ProcessSpec == ProcessInit /\ [][ProcessNext]_vars

\* C39: once the tool has removed an account from the storage, no step of
\* the gateway (a refresh, the lastUsed update of a completed request) writes
\* it back: an id the storage does not hold stays out of it.
C39_RemovedStaysRemoved ==
    [][\A a \in AccountIds : stored[a] = Absent => stored'[a] = Absent]_vars

\* The accounts of a provider that storage held active at the start and
\* whose start-up refresh or verification did not fail, in storage order.
\* (isActive is never written by the gateway, so the in-memory copy tells
\* what the storage held at the start.)
KeptAtStartup(provider) ==
    LET Pooled(a) == accounts[a].isActive /\ a \notin boot.failed
    IN  SelectSeq([i \in 1..MaxAccounts |-> <<provider, i>>], Pooled)

\* C36: once the server listens, each pool is exactly the active stored
\* accounts of its provider whose start-up refresh did not fail, in storage
\* order, every pooled codex account has a session token, no step changes a
\* pool afterwards, and /health reports the sizes of these pools.
C36_PoolsFixedAtStartup ==
    /\ [](boot.pc = "listening" =>
            /\ antigravityAccounts = KeptAtStartup("antigravity")
            /\ codexAccounts = KeptAtStartup("codex")
            /\ \A i \in 1..Len(codexAccounts) : accounts[codexAccounts[i]].sessionToken
            /\ boot.health.status = 200 =>
                 /\ boot.health.antigravity_accounts = Len(KeptAtStartup("antigravity"))
                 /\ boot.health.codex_accounts = Len(KeptAtStartup("codex")))
    /\ [][boot.pc = "listening" => UNCHANGED pools]_vars

\* C36 witness: a start-up that left one account out of each pool and kept
\* one, then a request that ended in an error, a removal from the storage and
\* a /health report.
C36_Witness ==
    /\ boot.pc = "listening"
    /\ boot.health.status = 200
    /\ Len(antigravityAccounts) = 1
    /\ Len(codexAccounts) = 1
    /\ Cardinality(boot.failed) = 2
    /\ pc[1] = "done"
    /\ res[1].status >= 400
    /\ \E a \in AccountIds : stored[a] = Absent

\* The step in which the start-up refresh or verification of account a fails
FailsAtStartup(a) == a \notin boot.failed /\ a \in boot'.failed

\* The step in which the refresh of account a, made for a request, fails
FailsInRequest(a) ==
    \E r \in Requests : pc[r] = "refresh" /\ pc'[r] = "done" /\ account[r] = a

\* The pool of the account's provider holds the account at the same place
\* before and after the step.
KeepsPosition(a) ==
    LET pool == IF a[1] = "antigravity" THEN antigravityAccounts ELSE codexAccounts
        after == IF a[1] = "antigravity" THEN antigravityAccounts' ELSE codexAccounts'
    IN  \E i \in 1..Len(pool) : pool[i] = a /\ i <= Len(after) /\ after[i] = a

\* The account, the storage and the cursors are as before the step.
LeftAsItWas(a) ==
    /\ accounts'[a] = accounts[a]
    /\ stored' = stored
    /\ UNCHANGED cursors

\* C38 as stated: whenever a refresh or verification fails, the account's
\* fields, the storage and the cursors are unchanged, the account keeps its
\* position in the pool and the provider's next selection is that account.
C38_FailedRefreshKeepsAccount ==
    [][\A a \in AccountIds :
          FailsAtStartup(a) \/ FailsInRequest(a) =>
             /\ LeftAsItWas(a)
             /\ KeepsPosition(a)
             /\ getNextAccount(a[1])' = a]_vars

\* C38 amended: a failed refresh or verification leaves the account's fields,
\* the storage and the cursors unchanged; when it fails for a request, the
\* account keeps its position in the pool and the provider's next selection
\* is that account again; when it fails at the start, the account is not put
\* into the pool, and no request of the run selects it.
C38_FailedRefreshLeavesAccount ==
    /\ [][\A a \in AccountIds :
            /\ FailsAtStartup(a) \/ FailsInRequest(a) => LeftAsItWas(a)
            /\ FailsInRequest(a) => KeepsPosition(a) /\ getNextAccount(a[1])' = a
            /\ FailsAtStartup(a) => UNCHANGED pools]_vars
    /\ [](\A a \in boot.failed :
            /\ \A i \in 1..Len(antigravityAccounts) : antigravityAccounts[i] # a
            /\ \A i \in 1..Len(codexAccounts) : codexAccounts[i] # a
            /\ \A r \in Requests : account[r] # a)

\* C38 witness: the start-up has left a codex account without session token
\* out of its pool, and a request ended on the failed refresh of the
\* antigravity account it had selected; that account is still the one the
\* cursor points to, and the storage holds it as the memory does.
C38_Witness ==
    /\ \E a \in boot.failed : a[1] = "codex" /\ ~accounts[a].sessionToken
    /\ pc[1] = "done"
    /\ res[1].status = 500
    /\ Len(upstream[1]) >= 1
    /\ upstream[1][Len(upstream[1])].call = "refresh"
    /\ upstream[1][Len(upstream[1])].state = "failed"
    /\ getNextAccount("antigravity") = account[1]
    /\ stored[account[1]] = accounts[account[1]]

====
